---- MODULE Spec2Model ----
(***************************************************************************)
(* Model of the watch-together backend: the in-memory room store, the      *)
(* presence registry (activeSockets), the socket.io room membership, the   *)
(* host playback handlers and the periodic sync of                         *)
(* backend/src/socket/index.ts (with its kick-user and WebRTC relay        *)
(* handlers), the room creation and the HTTP join of                       *)
(* backend/src/routes/rooms.ts (join codes included), the chat-message     *)
(* handler, the room store of storage/rooms on its two backends            *)
(* (backend/src/index.ts 68-146), and one browser: SocketService           *)
(* (frontend/src/services/socket.ts), the room store of the page and the   *)
(* drift correction of frontend/src/components/VideoPlayer.tsx.            *)
(*                                                                         *)
(* Units: the source keeps playbackState.currentTime in seconds (a float)  *)
(* and timestamps in milliseconds.  Here currentTime is held in            *)
(* milliseconds, so the source's `(serverTime - lastUpdated) / 1000`       *)
(* seconds is `serverTime - lastUpdated` below and 50.2 s is 50200.        *)
(*                                                                         *)
(* Every handler of the source awaits only already-resolved promises       *)
(* (getRoom / setRoom on the in-memory Map); a handler run is one action   *)
(* here, from its first line to its last emit.  Specifications SpecAwait,  *)
(* SpecPair and SpecClose split the sync callback and the control handlers *)
(* at their awaits and let the pieces interleave in any order: the order   *)
(* of the runtime for callers started in one turn is among them, and so    *)
(* are the orders of a store whose calls suspend for I/O (the Map stands   *)
(* in for Redis, socket/index.ts 23).                                      *)
(* Connection identifiers stand for live connections; after Disconnect an  *)
(* identifier stands for a new connection (nothing of the old one is       *)
(* kept by the server).                                                    *)
(***************************************************************************)
EXTENDS Integers, Sequences, FiniteSets, TLC

VARIABLES
  rooms,          \* Map<string, Room>: a function whose domain is the ids in the store
  activeSockets,  \* Map<string, SocketUser>: domain = connections with a presence entry
  joinedRooms,    \* socket.io adapter: connection -> the socket.io rooms it has joined
  now,            \* Date.now() of the server, in ms
  nextSync,       \* time at which the setInterval callback fires next
  issuedIds,      \* room ids uuidv4() has already handed out (never handed out twice)
  emitted,        \* the emit calls of the handler that ran last, in order
  last,           \* which handler ran last, on which connection, with which data
  ideal,          \* per room: the position a perfectly accurate independent clock shows
  sinceHost,      \* per room: the state right after the last control intent, and the syncs since
  before,         \* what the room named by the last handler was like when the handler started
  received,       \* per connection: the playbackState it was sent last (room-state or sync-state)
  tasks,          \* the sync callback and the control handler suspended at an await, if any
  client,         \* one browser: its clock, SocketService, room store and video element
  backends        \* the room store of storage/rooms, once on the Map and once on Redis

vars == <<rooms, activeSockets, joinedRooms, now, nextSync, issuedIds, emitted, last,
          ideal, sinceHost, before, received, tasks, client, backends>>

----------------------------------------------------------------------------
(* Bounds of the model *)

MaxNow == 3000

ClockMaxNow == 9000

SocketIds == {"s1", "s2"}

UserIds == {"u1", "u2"}

RoomIds == {"r1", "r2"}

\* the user each room is created for
HostOfRoom == [r \in RoomIds |-> IF r = "r1" THEN "u1" ELSE "u2"]

\* the rooms the control intents of specification Spec name (any connection may send them)
ControlledRooms == {"r1"}

\* positions a host reports in pause / seek, in ms
Positions == {50000}

ClockPositions == {0, 50000, 50200}

\* (url, videoType) pairs a host sends in change-source
Sources == {<<"a", "youtube">>}

ClockSources == {<<"a", "youtube">>, <<"b", "hls">>}

\* maxParticipants values a room is created with (Joi: 2..50)
MaxParticipantsChoices == {2}

\* clock steps between two events, in ms
CoarseSteps == {3000}

FineSteps == {1500}

RaceSteps == {100}

RaceMaxNow == 300

\* every connection id of the model; SocketIds are those specification Spec uses
Connections == {"s1", "s2", "s3"}

\* the users of specification SpecCapacity
CapacityUserIds == {"u1", "u2", "u3"}

\* the room the kick-user and HTTP join requests of specification SpecBan name
KickRooms == {"r1"}

\* clock steps of ten minutes, up to the end of a ban set at time 0
BanSteps == {600000}

BanMaxNow == 1800000

\* what a relay message names as its target: a user id, or nothing (undefined)
RelayTargets == {"u1", "u2", "none"}

\* opaque signalling payloads
Payloads == {"sdp-a", "sdp-b"}

\* positions a host may report, a negative one included (the handlers take any number)
ReportedPositions == {-5000, 50000}

OrderMaxNow == 3000

AwaitMaxNow == 4500
PairMaxNow == 3000
KickMaxNow == 3000
CloseMaxNow == 3000
RosterSteps == {1800000}
RosterMaxNow == 1800000

\* Math.random() is drawn in thousandths: 0, 0.5 and 0.999
RandomScale == 1000
RandomDraws == {0, 500, 999}
\* the draw behind the join code of each room, where the join codes do not matter
RandomOfRoom == [r \in RoomIds |-> IF r = "r1" THEN 0 ELSE 999]

\* the text of the chat messages, as a sequence of characters
ChatTexts == {<<"<", "b", ">">>}
\* how many ids uuidv4() hands out in specification SpecChat
MaxIssued == 104

\* the names a caller gives to the room it holds
RoomNames == {"movie night", "renamed"}

\* what the browser's clock shows when the server's shows 0 (Date.now() is far from 0)
ClientSkews == {10000, 12500}
\* one-way delay of a broadcast, in ms
NetDelays == {0, 200}
\* the position a host broadcast carries, in ms
HostPositions == {10000}
\* clock steps and horizon of specification SpecExpect
ExpectSteps == {200, 1000}
ExpectMaxNow == 4000
\* clock steps and horizon of specification SpecPlayer
PlayerSteps == {500}
PlayerMaxNow == 3000
\* the server times at which the broadcasts of specification SpecReorder were emitted
SentTimes == {0, 500, 1000}
ReorderMaxNow == 2000
DriftSteps == {1000}
DriftMaxNow == 6000
LaterTimes == {0, 1, 1500, 3000, 86400000}

(* Program constants *)

\* setInterval(..., 3000)
SYNC_INTERVAL == 3000

\* the ban window of kick-user: 30 * 60 * 1000 ms
BAN_WINDOW == 1800000

\* chat-message: `room.chatHistory.length > 100` and `.substring(0, 500)`
HISTORY_LIMIT == 100
MESSAGE_LIMIT == 500

\* generateRoomCode: Math.floor(10000 + Math.random() * 90000)
CODE_BASE == 10000
CODE_SPAN == 90000

\* VideoPlayer: thresholds of the drift correction, in ms (1.0 s, 1.5 s, 0.3 s)
INITIAL_SEEK_DRIFT == 1000
HARD_SEEK_DRIFT == 1500
SOFT_DRIFT == 300
\* `now - lastHardSeekAtRef.current > 2000`
HARD_SEEK_COOLDOWN == 2000
\* setInterval(..., 1000) of the drift check
POLL_INTERVAL == 1000
\* playback rates in thousandths: 1.0, 1 + 0.08, 1 - 0.08, and the tolerance 0.01
NORMAL_RATE == 1000
RATE_NUDGE == 80
RATE_TOLERANCE == 10
\* HTMLMediaElement.HAVE_FUTURE_DATA, the `video.readyState >= 3` of the source
HAVE_FUTURE_DATA == 3

----------------------------------------------------------------------------
(* Pure helpers *)

\* rooms.set(roomId, room)
setRoom(map, roomId, room) ==
  [x \in (DOMAIN map) \cup {roomId} |-> IF x = roomId THEN room ELSE map[x]]

\* variant: the entry stays in the Map
mapDelete_Keeps(map, key) ==
  map

\* Map.prototype.delete
mapDelete(map, key) ==
  [x \in (DOMAIN map) \ {key} |-> map[x]]

\* the initial playbackState of a created room
initialPlaybackState(serverTime) ==
  [url |-> "", currentTime |-> 0, isPlaying |-> FALSE,
   lastUpdated |-> serverTime, videoType |-> "mp4"]

\* generateRoomCode(), with Math.random() = random / RandomScale.  The source turns
\* the number into its decimal string; distinct numbers give distinct strings.
generateRoomCode(random) ==
  (CODE_BASE * RandomScale + random * CODE_SPAN) \div RandomScale

\* `until && now < until`, with until = room.bannedUntil?.[userId]
isBanned(room, userId, serverTime) ==
  /\ userId \in DOMAIN room.bannedUntil
  /\ room.bannedUntil[userId] # 0
  /\ serverTime < room.bannedUntil[userId]

\* Math.ceil((until - now) / 60000), for until > now
minutesLeft(until, serverTime) ==
  ((until - serverTime) + 59999) \div 60000

\* the guard `!socketUser || !socketUser.isHost` of the control handlers, negated
isHostSocket(c) ==
  /\ c \in DOMAIN activeSockets
  /\ activeSockets[c].isHost

\* SocketService.calculateExpectedTime, with getServerTime() = serverTime
calculateExpectedTime(playbackState, serverTime) ==
  IF ~playbackState.isPlaying
  THEN playbackState.currentTime
  ELSE playbackState.currentTime + (serverTime - playbackState.lastUpdated)

\* variant: play also moves the position on by the time played since lastUpdated
playState_Rebasing(pb, serverTime) ==
  [pb EXCEPT !.currentTime = calculateExpectedTime(pb, serverTime),
             !.isPlaying = TRUE, !.lastUpdated = serverTime]

\* play: isPlaying = true; lastUpdated = serverTime
playState(pb, serverTime) ==
  [pb EXCEPT !.isPlaying = TRUE, !.lastUpdated = serverTime]

\* variant: pause keeps the stored position instead of the reported one
pauseState_KeepsPosition(pb, currentTime, serverTime) ==
  [pb EXCEPT !.isPlaying = FALSE, !.lastUpdated = serverTime]

\* variant: pause toggles isPlaying
pauseState_Toggles(pb, currentTime, serverTime) ==
  [pb EXCEPT !.isPlaying = ~pb.isPlaying, !.currentTime = currentTime,
             !.lastUpdated = serverTime]

\* pause: isPlaying = false; currentTime = data.currentTime; lastUpdated = serverTime
pauseState(pb, currentTime, serverTime) ==
  [pb EXCEPT !.isPlaying = FALSE, !.currentTime = currentTime,
             !.lastUpdated = serverTime]

\* variant: seek also pauses
seekState_Pauses(pb, currentTime, serverTime) ==
  [pb EXCEPT !.isPlaying = FALSE, !.currentTime = currentTime,
             !.lastUpdated = serverTime]

\* seek: currentTime = data.currentTime; lastUpdated = serverTime
seekState(pb, currentTime, serverTime) ==
  [pb EXCEPT !.currentTime = currentTime, !.lastUpdated = serverTime]

\* variant: the new source starts playing at once
changeSourceState_Autoplay(url, videoType, serverTime) ==
  [url |-> url, currentTime |-> 0, isPlaying |-> TRUE,
   lastUpdated |-> serverTime, videoType |-> videoType]

\* variant: the new source is stamped with time 0
changeSourceState_Unstamped(url, videoType, serverTime) ==
  [url |-> url, currentTime |-> 0, isPlaying |-> FALSE,
   lastUpdated |-> 0, videoType |-> videoType]

\* change-source: the whole playbackState is replaced
changeSourceState(url, videoType, serverTime) ==
  [url |-> url, currentTime |-> 0, isPlaying |-> FALSE,
   lastUpdated |-> serverTime, videoType |-> videoType]

\* variant: the sync moves the position on whether the room is playing or not
syncState_IgnoresPause(pb, serverTime) ==
  [pb EXCEPT !.currentTime = @ + (serverTime - pb.lastUpdated),
             !.lastUpdated = serverTime]

\* variant: the sync adds the elapsed time but keeps the old lastUpdated
syncState_KeepsTimestamp(pb, serverTime) ==
  IF pb.isPlaying
  THEN [pb EXCEPT !.currentTime = @ + (serverTime - pb.lastUpdated)]
  ELSE pb

\* variant: the sync moves lastUpdated and leaves the position
syncState_DropsElapsed(pb, serverTime) ==
  IF pb.isPlaying
  THEN [pb EXCEPT !.lastUpdated = serverTime]
  ELSE pb

\* periodic sync: if playing, currentTime += elapsed; lastUpdated = serverTime
syncState(pb, serverTime) ==
  IF pb.isPlaying
  THEN [pb EXCEPT !.currentTime = @ + (serverTime - pb.lastUpdated),
                  !.lastUpdated = serverTime]
  ELSE pb

\* the connections in socket.io room roomId: the recipients of io.to(roomId)
inRoom(roomId) ==
  {c \in Connections : roomId \in joinedRooms[c]}

\* one emit call: its event, the connections it is delivered to, its payload
Emit(to, event, body) ==
  [event |-> event, to |-> to, body |-> body]

\* variant: the broadcast carries the state read before the mutation
syncEmit_StaleState(roomId, playbackState, serverTime) ==
  Emit(inRoom(roomId), "sync-state",
       [playbackState |-> rooms[roomId].playbackState, serverTime |-> serverTime])

\* io.to(roomId).emit('sync-state', { playbackState, serverTime })
syncEmit(roomId, playbackState, serverTime) ==
  Emit(inRoom(roomId), "sync-state",
       [playbackState |-> playbackState, serverTime |-> serverTime])

\* variant: the error goes to every connection
errorEmit_ToAll(c, message) ==
  Emit(Connections, "error", [message |-> message])

\* socket.emit('error', { message })
errorEmit(c, message) ==
  Emit({c}, "error", [message |-> message])

\* stands for "no playbackState" where a record is expected
NoState ==
  [url |-> "none", currentTime |-> -1, isPlaying |-> FALSE,
   lastUpdated |-> -1, videoType |-> "none"]

\* the record of the handler that ran: its event, its connection and its data
Handler(op, c, roomId, args) ==
  [op |-> op, socket |-> c, roomId |-> roomId, args |-> args]

\* res.json / next(new AppError(message, status)): the answer to an HTTP request
respond(status, body) ==
  [event |-> "http-response", to |-> {}, body |-> [status |-> status] @@ body]

\* the sync callback when it is not running
IdleTick ==
  [pc |-> "idle", roomId |-> "none", hasRoom |-> FALSE, serverTime |-> 0, todo |-> {}]

\* no control handler is running
IdleIntent ==
  [pc |-> "idle", op |-> "none", socket |-> "none", roomId |-> "none", args |-> <<>>,
   hasRoom |-> FALSE, serverTime |-> 0]

\* the browser before the room page is open.  currentTime is video.currentTime in
\* ms, playbackRate is in thousandths, nextPoll is the local time of the next
\* drift check (-1: no interval set), closure is the playbackState the running
\* effect captured, pending says that the store changed and the effect has not
\* re-run yet.
IdleClient ==
  [mounted |-> FALSE, skew |-> 0, serverTimeOffset |-> 0,
   playbackState |-> NoState, closure |-> NoState, pending |-> FALSE,
   currentTime |-> 0, playbackRate |-> NORMAL_RATE, paused |-> TRUE,
   readyState |-> 4, isBuffering |-> FALSE, lastHardSeekAt |-> 0, nextPoll |-> -1]

\* stands for null where a Room is expected
NoRoom ==
  [id |-> "null", code |-> 0, name |-> "", createdAt |-> <<"null", 0>>]

\* Both room stores empty and nothing returned yet.  On the Map side a Room object
\* is known by its id (a room id is stored once, so there is one object per id):
\* memRooms holds the objects, memOrder the Map's insertion order, memHeld the id of
\* the object the caller holds.  On the Redis side redisRooms, redisCodes and
\* redisIds are the keys room:<id>, room:code:<code> and the set rooms:ids, and
\* redisHeld is the caller's own object.
EmptyBackends ==
  [memRooms |-> <<>>, memOrder |-> <<>>, memHeld |-> "null",
   memResult |-> NoRoom, memCount |-> 0,
   redisRooms |-> <<>>, redisCodes |-> <<>>, redisIds |-> {}, redisHeld |-> NoRoom,
   redisResult |-> NoRoom, redisCount |-> 0]

----------------------------------------------------------------------------
(* Initial state: empty store, no presence, the interval timer armed *)

Init ==
  /\ rooms = <<>>
  /\ activeSockets = <<>>
  /\ joinedRooms = [c \in Connections |-> {}]
  /\ now = 0
  /\ nextSync = SYNC_INTERVAL
  /\ issuedIds = {}
  /\ emitted = <<>>
  /\ last = Handler("init", "none", "none", <<>>)
  /\ ideal = [r \in RoomIds |-> [currentTime |-> 0, isPlaying |-> FALSE]]
  /\ sinceHost = [r \in RoomIds |->
                    [syncs |-> 0, currentTime |-> 0, at |-> 0, intent |-> <<"none", <<>>>>]]
  /\ before = [playbackState |-> NoState, intent |-> <<"none", <<>>>>]
  /\ received = [c \in Connections |-> NoState]
  /\ tasks = [tick |-> IdleTick, intent |-> IdleIntent, second |-> IdleIntent,
              held |-> <<>>, overlap |-> FALSE, wrote |-> NoState]
  /\ client = IdleClient
  /\ backends = EmptyBackends

----------------------------------------------------------------------------
(* POST /api/rooms *)

CreateRoom(roomId, random, hostId, maxParticipants) ==
  /\ roomId \notin issuedIds
  /\ issuedIds' = issuedIds \cup {roomId}
  /\ LET room == [id |-> roomId, code |-> generateRoomCode(random),
                  hostId |-> hostId, participants |-> <<hostId>>,
                  playbackState |-> initialPlaybackState(now),
                  chatHistory |-> <<>>,
                  maxParticipants |-> maxParticipants,
                  bannedUntil |-> <<>>]
     IN  /\ rooms' = setRoom(rooms, roomId, room)
  /\ emitted' = <<>>
  /\ last' = Handler("create-room", "none", roomId, <<hostId>>)
  /\ UNCHANGED <<activeSockets, joinedRooms, now, nextSync>>

(* socket.on('join-room') *)

JoinRoom(c, roomId, userId) ==
  /\ IF roomId \notin DOMAIN rooms
     THEN /\ emitted' = <<errorEmit(c, "Room not found")>>
          /\ UNCHANGED <<activeSockets, joinedRooms>>
     ELSE IF isBanned(rooms[roomId], userId, now)
     THEN /\ emitted' = <<Emit({c}, "error",
                               [message |-> "You are temporarily banned. Try again in N minute(s).",
                                N |-> minutesLeft(rooms[roomId].bannedUntil[userId], now)])>>
          /\ UNCHANGED <<activeSockets, joinedRooms>>
     ELSE LET room == rooms[roomId]
              isHost == room.hostId = userId
              socketUser == [userId |-> userId, username |-> userId, roomId |-> roomId,
                             socketId |-> c, isHost |-> isHost, isMuted |-> FALSE]
              newSockets == setRoom(activeSockets, c, socketUser)
              newJoined == [joinedRooms EXCEPT ![c] = @ \cup {roomId}]
          IN  /\ activeSockets' = newSockets
              /\ joinedRooms' = newJoined
              /\ emitted' =
                   << Emit({c}, "room-state",
                           [room |-> room,
                            participants |-> {newSockets[x] : x \in
                               {y \in DOMAIN newSockets : newSockets[y].roomId = roomId}},
                            serverTime |-> now]),
                      Emit({x \in Connections : roomId \in newJoined[x]} \ {c}, "user-joined",
                           [userId |-> userId, username |-> userId, isHost |-> isHost,
                            serverTime |-> now]) >>
  /\ last' = Handler("join-room", c, roomId, <<userId>>)
  /\ UNCHANGED <<rooms, now, nextSync, issuedIds>>

(* socket.on('play') *)

Play(c, roomId) ==
  /\ IF ~isHostSocket(c)
     THEN /\ emitted' = <<errorEmit(c, "Only host can control playback")>>
          /\ UNCHANGED rooms
     ELSE IF roomId \notin DOMAIN rooms
     THEN /\ emitted' = <<>>
          /\ UNCHANGED rooms
     ELSE LET serverTime == now
              room == [rooms[roomId] EXCEPT
                         !.playbackState = playState(@, serverTime)]
          IN  /\ rooms' = setRoom(rooms, roomId, room)
              /\ emitted' = <<syncEmit(roomId, room.playbackState, serverTime)>>
  /\ last' = Handler("play", c, roomId, <<>>)
  /\ UNCHANGED <<activeSockets, joinedRooms, now, nextSync, issuedIds>>

(* socket.on('pause') *)

Pause(c, roomId, currentTime) ==
  /\ IF ~isHostSocket(c)
     THEN /\ emitted' = <<errorEmit(c, "Only host can control playback")>>
          /\ UNCHANGED rooms
     ELSE IF roomId \notin DOMAIN rooms
     THEN /\ emitted' = <<>>
          /\ UNCHANGED rooms
     ELSE LET serverTime == now
              room == [rooms[roomId] EXCEPT
                         !.playbackState = pauseState(@, currentTime, serverTime)]
          IN  /\ rooms' = setRoom(rooms, roomId, room)
              /\ emitted' = <<syncEmit(roomId, room.playbackState, serverTime)>>
  /\ last' = Handler("pause", c, roomId, <<currentTime>>)
  /\ UNCHANGED <<activeSockets, joinedRooms, now, nextSync, issuedIds>>

(* socket.on('seek') *)

\* variant: seek writes the room and tells nobody
Seek_Silent(c, roomId, currentTime) ==
  /\ IF ~isHostSocket(c)
     THEN /\ emitted' = <<errorEmit(c, "Only host can seek")>>
          /\ UNCHANGED rooms
     ELSE IF roomId \notin DOMAIN rooms
     THEN /\ emitted' = <<>>
          /\ UNCHANGED rooms
     ELSE LET serverTime == now
              room == [rooms[roomId] EXCEPT
                         !.playbackState = seekState(@, currentTime, serverTime)]
          IN  /\ rooms' = setRoom(rooms, roomId, room)
              /\ emitted' = <<>>
  /\ last' = Handler("seek", c, roomId, <<currentTime>>)
  /\ UNCHANGED <<activeSockets, joinedRooms, now, nextSync, issuedIds>>

Seek(c, roomId, currentTime) ==
  /\ IF ~isHostSocket(c)
     THEN /\ emitted' = <<errorEmit(c, "Only host can seek")>>
          /\ UNCHANGED rooms
     ELSE IF roomId \notin DOMAIN rooms
     THEN /\ emitted' = <<>>
          /\ UNCHANGED rooms
     ELSE LET serverTime == now
              room == [rooms[roomId] EXCEPT
                         !.playbackState = seekState(@, currentTime, serverTime)]
          IN  /\ rooms' = setRoom(rooms, roomId, room)
              /\ emitted' = <<syncEmit(roomId, room.playbackState, serverTime)>>
  /\ last' = Handler("seek", c, roomId, <<currentTime>>)
  /\ UNCHANGED <<activeSockets, joinedRooms, now, nextSync, issuedIds>>

(* socket.on('change-source') *)

ChangeSource(c, roomId, url, videoType) ==
  /\ IF ~isHostSocket(c)
     THEN /\ emitted' = <<errorEmit(c, "Only host can change video")>>
          /\ UNCHANGED rooms
     ELSE IF roomId \notin DOMAIN rooms
     THEN /\ emitted' = <<>>
          /\ UNCHANGED rooms
     ELSE LET serverTime == now
              room == [rooms[roomId] EXCEPT
                         !.playbackState = changeSourceState(url, videoType, serverTime)]
          IN  /\ rooms' = setRoom(rooms, roomId, room)
              /\ emitted' = <<syncEmit(roomId, room.playbackState, serverTime)>>
  /\ last' = Handler("change-source", c, roomId, <<url, videoType>>)
  /\ UNCHANGED <<activeSockets, joinedRooms, now, nextSync, issuedIds>>

\* variant: the room is closed whoever leaves it
Disconnect_AnyoneCloses(c) ==
  /\ joinedRooms' = [joinedRooms EXCEPT ![c] = {}]
  /\ IF c \in DOMAIN activeSockets
     THEN LET socketUser == activeSockets[c]
              roomId == socketUser.roomId
              userLeft == Emit(inRoom(roomId) \ {c}, "user-left",
                               [userId |-> socketUser.userId,
                                username |-> socketUser.username, serverTime |-> now])
          IN  /\ activeSockets' = mapDelete(activeSockets, c)
              /\ IF roomId \in DOMAIN rooms
                 THEN /\ rooms' = mapDelete(rooms, roomId)
                      /\ emitted' = << userLeft,
                                       Emit(inRoom(roomId) \ {c}, "room-closed",
                                            [message |-> "Host left. Room closed."]) >>
                 ELSE /\ emitted' = <<userLeft>>
                      /\ UNCHANGED rooms
     ELSE /\ emitted' = <<>>
          /\ UNCHANGED <<rooms, activeSockets>>
  /\ last' = Handler("disconnect", c, "none", <<>>)
  /\ UNCHANGED <<now, nextSync, issuedIds>>

\* message.replace(/</g, '&lt;').replace(/>/g, '&gt;'), character by character
RECURSIVE escapeHtml(_)
escapeHtml(message) ==
  IF message = <<>> THEN <<>>
  ELSE (IF Head(message) = "<" THEN <<"&", "l", "t", ";">>
        ELSE IF Head(message) = ">" THEN <<"&", "g", "t", ";">>
        ELSE <<Head(message)>>) \o escapeHtml(Tail(message))

\* String.prototype.substring(0, end)
substring(text, end) ==
  SubSeq(text, 1, IF Len(text) < end THEN Len(text) ELSE end)

\* the next value of uuidv4(): one it has not handed out (a string, like the room ids)
uuidv4 ==
  ToString(Cardinality(issuedIds) + 1)

\* variant: the newest message is dropped from a full history
pushCapped_DropsNewest(chatHistory, chatMessage) ==
  IF Len(chatHistory) + 1 > HISTORY_LIMIT THEN chatHistory
  ELSE Append(chatHistory, chatMessage)

\* room.chatHistory.push(chatMessage); if (room.chatHistory.length > 100) room.chatHistory.shift()
pushCapped(chatHistory, chatMessage) ==
  IF Len(chatHistory) + 1 > HISTORY_LIMIT THEN Tail(Append(chatHistory, chatMessage))
  ELSE Append(chatHistory, chatMessage)

(* socket.on('chat-message'); clientMessageId and imageUrl are passed through
   (absent here) and type is absent: 'text' *)

ChatMessage(c, roomId, message) ==
  /\ IF c \notin DOMAIN activeSockets
     THEN /\ emitted' = <<>>
          /\ UNCHANGED <<rooms, issuedIds>>
     ELSE LET socketUser == activeSockets[c]
              chatMessage == [id |-> uuidv4, userId |-> socketUser.userId,
                              username |-> socketUser.username,
                              message |-> substring(escapeHtml(message), MESSAGE_LIMIT),
                              timestamp |-> now, type |-> "text"]
          IN  /\ issuedIds' = issuedIds \cup {uuidv4}
              /\ rooms' = IF roomId \in DOMAIN rooms
                          THEN setRoom(rooms, roomId,
                                       [rooms[roomId] EXCEPT
                                          !.chatHistory = pushCapped(@, chatMessage)])
                          ELSE rooms
              /\ emitted' = <<Emit(inRoom(roomId), "chat-message", chatMessage)>>
  /\ last' = Handler("chat-message", c, roomId, <<message>>)
  /\ UNCHANGED <<activeSockets, joinedRooms, now, nextSync>>

(* socket.on('disconnect'); socket.io has already taken the connection out of its rooms *)

Disconnect(c) ==
  /\ joinedRooms' = [joinedRooms EXCEPT ![c] = {}]
  /\ IF c \in DOMAIN activeSockets
     THEN LET socketUser == activeSockets[c]
              roomId == socketUser.roomId
              userLeft == Emit(inRoom(roomId) \ {c}, "user-left",
                               [userId |-> socketUser.userId,
                                username |-> socketUser.username, serverTime |-> now])
          IN  /\ activeSockets' = mapDelete(activeSockets, c)
              /\ IF socketUser.isHost /\ roomId \in DOMAIN rooms
                 THEN /\ rooms' = mapDelete(rooms, roomId)
                      /\ emitted' = << userLeft,
                                       Emit(inRoom(roomId) \ {c}, "room-closed",
                                            [message |-> "Host left. Room closed."]) >>
                 ELSE /\ emitted' = <<userLeft>>
                      /\ UNCHANGED rooms
     ELSE /\ emitted' = <<>>
          /\ UNCHANGED <<rooms, activeSockets>>
  /\ last' = Handler("disconnect", c, "none", <<>>)
  /\ UNCHANGED <<now, nextSync, issuedIds>>

\* the rooms of the store with `room.code === code`
roomsWithCode(code) ==
  {r \in DOMAIN rooms : rooms[r].code = code}

(* GET /api/rooms/code/:code.  The loop returns the first room with the code in
   the Map's insertion order, which the model does not keep: any of them. *)

GetRoomByCode(code) ==
  /\ IF roomsWithCode(code) = {}
     THEN emitted' = <<respond(404, [message |-> "Room not found with this code"])>>
     ELSE \E r \in roomsWithCode(code) :
            emitted' = <<respond(200, [room |-> rooms[r]])>>
  /\ last' = Handler("get-by-code", "none", "none", <<code>>)
  /\ UNCHANGED <<rooms, activeSockets, joinedRooms, now, nextSync, issuedIds>>

(* socket.on('join-room') with no payload: the destructuring throws, the catch answers *)

JoinRoomMalformed(c) ==
  /\ emitted' = <<errorEmit(c, "Failed to join room")>>
  /\ last' = Handler("join-room", c, "none", <<>>)
  /\ UNCHANGED <<rooms, activeSockets, joinedRooms, now, nextSync, issuedIds>>

(* POST /api/rooms/:roomId/join *)

\* variant: the user id is pushed whether the roster has it or not
pushParticipant_Always(participants, userId) ==
  Append(participants, userId)

\* `if (!room.participants.includes(userId)) room.participants.push(userId)`
pushParticipant(participants, userId) ==
  IF \E i \in 1..Len(participants) : participants[i] = userId
  THEN participants
  ELSE Append(participants, userId)

HttpJoin(roomId, userId) ==
  /\ IF roomId \notin DOMAIN rooms
     THEN /\ emitted' = <<respond(404, [message |-> "Room not found"])>>
          /\ UNCHANGED rooms
     ELSE IF isBanned(rooms[roomId], userId, now)
     THEN /\ emitted' = <<respond(403,
                             [message |-> "You are temporarily banned. Try again in N minute(s).",
                              N |-> minutesLeft(rooms[roomId].bannedUntil[userId], now)])>>
          /\ UNCHANGED rooms
     ELSE IF Len(rooms[roomId].participants) >= rooms[roomId].maxParticipants
     THEN /\ emitted' = <<respond(403, [message |-> "Room is full"])>>
          /\ UNCHANGED rooms
     ELSE LET room == [rooms[roomId] EXCEPT
                         !.participants = pushParticipant(@, userId)]
          IN  /\ rooms' = setRoom(rooms, roomId, room)
              /\ emitted' = <<respond(200, [room |-> room])>>
  /\ last' = Handler("http-join", "none", roomId, <<userId>>)
  /\ UNCHANGED <<activeSockets, joinedRooms, now, nextSync, issuedIds>>

(* socket.on('kick-user') *)

\* variant: the lookup ignores the user id and matches every presence of the room
findTargets_WholeRoom(roomId, userId) ==
  {x \in DOMAIN activeSockets : activeSockets[x].roomId = roomId}

\* the entries `find` tests true: user.userId === userId && user.roomId === roomId.
\* `find` returns the first of them in the Map's insertion order; the model keeps
\* no insertion order and lets the handlers take any of them.
findTargets(roomId, userId) ==
  {x \in DOMAIN activeSockets :
     activeSockets[x].userId = userId /\ activeSockets[x].roomId = roomId}

\* variant: the ban ends a minute after the kick
kickedRoom_ShortBan(room, userId, serverTime) ==
  [room EXCEPT
     !.participants = SelectSeq(@, LAMBDA pid : pid # userId),
     !.bannedUntil = setRoom(@, userId, serverTime + 60000)]

\* participants.filter(pid => pid !== userId); bannedUntil[userId] = Date.now() + 30 min
kickedRoom(room, userId, serverTime) ==
  [room EXCEPT
     !.participants = SelectSeq(@, LAMBDA pid : pid # userId),
     !.bannedUntil = setRoom(@, userId, serverTime + BAN_WINDOW)]

\* io.to(socket.id).emit('kick-result', ...)
kickResult(c, body) ==
  Emit({c}, "kick-result", body)

KickUser(c, roomId, userId) ==
  /\ IF ~isHostSocket(c)
     THEN /\ emitted' = <<errorEmit(c, "Only host can kick users")>>
          /\ UNCHANGED <<rooms, activeSockets, joinedRooms>>
     ELSE IF findTargets(roomId, userId) = {}
     THEN /\ emitted' = <<kickResult(c, [ok |-> FALSE, message |-> "User not found in room"])>>
          /\ UNCHANGED <<rooms, activeSockets, joinedRooms>>
     ELSE \E targetSocketId \in findTargets(roomId, userId) :
            LET targetUser == activeSockets[targetSocketId]
                newJoined == [joinedRooms EXCEPT ![targetSocketId] = @ \ {roomId}]
            IN  IF targetUser.isHost
                THEN /\ emitted' = <<kickResult(c, [ok |-> FALSE,
                                                    message |-> "Cannot kick the host"])>>
                     /\ UNCHANGED <<rooms, activeSockets, joinedRooms>>
                ELSE /\ joinedRooms' = newJoined
                     /\ activeSockets' = mapDelete(activeSockets, targetSocketId)
                     /\ rooms' = IF roomId \in DOMAIN rooms
                                 THEN setRoom(rooms, roomId,
                                              kickedRoom(rooms[roomId], userId, now))
                                 ELSE rooms
                     /\ emitted' =
                          << Emit({targetSocketId}, "kicked",
                                  [message |-> "You were removed from the room"]),
                             Emit({x \in Connections : roomId \in newJoined[x]}, "user-left",
                                  [userId |-> userId, username |-> targetUser.username,
                                   serverTime |-> now]),
                             kickResult(c, [ok |-> TRUE, userId |-> userId]) >>
  /\ last' = Handler("kick-user", c, roomId, <<userId>>)
  /\ UNCHANGED <<now, nextSync, issuedIds>>

(* socket.on('webrtc-offer'), socket.on('webrtc-answer'), socket.on('webrtc-ice-candidate') *)

WebrtcOffer(c, roomId, targetUserId, offer) ==
  /\ IF c \notin DOMAIN activeSockets
     THEN emitted' = <<>>
     ELSE LET socketUser == activeSockets[c]
              body == [offer |-> offer, fromUserId |-> socketUser.userId,
                       fromUsername |-> socketUser.username]
          IN  IF targetUserId # "none"
              THEN IF findTargets(roomId, targetUserId) = {}
                   THEN emitted' = <<>>
                   ELSE \E targetSocket \in findTargets(roomId, targetUserId) :
                          emitted' = <<Emit({targetSocket}, "webrtc-offer", body)>>
              ELSE emitted' = <<Emit(inRoom(roomId) \ {c}, "webrtc-offer", body)>>
  /\ last' = Handler("webrtc-offer", c, roomId, <<targetUserId, offer>>)
  /\ UNCHANGED <<rooms, activeSockets, joinedRooms, now, nextSync, issuedIds>>

\* variant: the relay writes to the sender's presence entry
WebrtcAnswer_Writes(c, roomId, targetUserId, answer) ==
  /\ IF c \notin DOMAIN activeSockets
     THEN /\ emitted' = <<>>
          /\ UNCHANGED activeSockets
     ELSE /\ emitted' = <<>>
          /\ activeSockets' = [activeSockets EXCEPT ![c].isMuted = TRUE]
  /\ last' = Handler("webrtc-answer", c, roomId, <<targetUserId, answer>>)
  /\ UNCHANGED <<rooms, joinedRooms, now, nextSync, issuedIds>>

WebrtcAnswer(c, roomId, targetUserId, answer) ==
  /\ IF c \notin DOMAIN activeSockets
     THEN emitted' = <<>>
     ELSE LET socketUser == activeSockets[c]
              body == [answer |-> answer, fromUserId |-> socketUser.userId,
                       fromUsername |-> socketUser.username]
          IN  IF findTargets(roomId, targetUserId) = {}
              THEN emitted' = <<>>
              ELSE \E targetSocket \in findTargets(roomId, targetUserId) :
                     emitted' = <<Emit({targetSocket}, "webrtc-answer", body)>>
  /\ last' = Handler("webrtc-answer", c, roomId, <<targetUserId, answer>>)
  /\ UNCHANGED <<rooms, activeSockets, joinedRooms, now, nextSync, issuedIds>>

WebrtcIceCandidate(c, roomId, targetUserId, candidate) ==
  /\ IF c \notin DOMAIN activeSockets
     THEN emitted' = <<>>
     ELSE LET socketUser == activeSockets[c]
              body == [candidate |-> candidate, fromUserId |-> socketUser.userId]
          IN  IF findTargets(roomId, targetUserId) = {}
              THEN emitted' = <<>>
              ELSE \E targetSocket \in findTargets(roomId, targetUserId) :
                     emitted' = <<Emit({targetSocket}, "webrtc-ice-candidate", body)>>
  /\ last' = Handler("webrtc-ice-candidate", c, roomId, <<targetUserId, candidate>>)
  /\ UNCHANGED <<rooms, activeSockets, joinedRooms, now, nextSync, issuedIds>>

(* the setInterval callback: periodic sync broadcast *)

\* variant: every room of the store is synced, with or without a presence
syncedRooms_All ==
  DOMAIN rooms

\* new Set(Array.from(activeSockets.values()).map(u => u.roomId)), those still in the store
syncedRooms ==
  {activeSockets[c].roomId : c \in DOMAIN activeSockets} \cap DOMAIN rooms

\* the emit calls of one sync round (the order among rooms is not modelled: a fixed one)
RECURSIVE syncEmits(_, _)
syncEmits(todo, map) ==
  IF todo = {} THEN <<>>
  ELSE LET roomId == CHOOSE r \in todo : TRUE
       IN  <<syncEmit(roomId, map[roomId].playbackState, now)>>
             \o syncEmits(todo \ {roomId}, map)

SyncTick ==
  /\ now = nextSync
  /\ nextSync' = nextSync + SYNC_INTERVAL
  /\ LET newRooms == [r \in DOMAIN rooms |->
                        IF r \in syncedRooms
                        THEN [rooms[r] EXCEPT !.playbackState = syncState(@, now)]
                        ELSE rooms[r]]
     IN  /\ rooms' = newRooms
         /\ emitted' = syncEmits(syncedRooms, newRooms)
  /\ last' = Handler("sync", "none", "none", <<>>)
  /\ UNCHANGED <<activeSockets, joinedRooms, now, issuedIds>>

(* The sync callback and the control handlers, cut at their awaits.  getRoom
   and setRoom are async functions: their bodies (rooms.get, rooms.set) run at
   the call, and the caller resumes later.  What getRoom returned is the Room
   object held in the Map, not a copy: a suspended caller sees the writes made
   to the room meanwhile, so the model reads the room when the caller resumes.
   A room that `rooms.delete` removed while a caller was suspended is still the
   object the caller holds: tasks.held keeps the Room objects that left the Map,
   by room id (ids are never issued twice), and `setRoom` puts such an object
   back under its id.  tasks.intent and tasks.second are two control handlers
   that can be suspended at the same time.
   tasks.overlap and tasks.wrote are history fields: whether the sync callback
   and the control handler were suspended at the same time, and the
   playbackState the control handler tasks.intent wrote. *)

\* the Room object that getRoom(roomId) returned to a caller that found one
heldRoom(roomId) ==
  IF roomId \in DOMAIN rooms THEN rooms[roomId] ELSE tasks.held[roomId]

\* the first lines of the loop body: `await getRoom(roomId)` for the next room id
tickNext(todo) ==
  IF todo = {} THEN IdleTick
  ELSE LET roomId == CHOOSE r \in todo : TRUE
       IN  [pc |-> "got", roomId |-> roomId, hasRoom |-> roomId \in DOMAIN rooms,
            serverTime |-> 0, todo |-> todo \ {roomId}]

\* the timer fires: the room ids are collected and the first getRoom is awaited
TickBegin ==
  /\ now = nextSync
  /\ tasks.tick.pc = "idle"
  /\ nextSync' = nextSync + SYNC_INTERVAL
  /\ LET tick == tickNext({activeSockets[c].roomId : c \in DOMAIN activeSockets})
     IN  tasks' = [tasks EXCEPT
                     !.tick = tick,
                     !.overlap = @ \/ (tick.pc # "idle" /\ tasks.intent.pc # "idle")]
  /\ emitted' = <<>>
  /\ last' = Handler("sync", "none", "none", <<>>)
  /\ UNCHANGED <<rooms, activeSockets, joinedRooms, now, issuedIds>>

\* from the return of getRoom to `await setRoom` (playing) or to the emit (paused)
TickWrite ==
  /\ tasks.tick.pc = "got"
  /\ LET roomId == tasks.tick.roomId
     IN  IF ~tasks.tick.hasRoom
         THEN /\ tasks' = [tasks EXCEPT !.tick = tickNext(tasks.tick.todo)]
              /\ emitted' = <<>>
              /\ UNCHANGED rooms
         ELSE LET serverTime == now
                  room == [heldRoom(roomId) EXCEPT
                             !.playbackState = syncState(@, serverTime)]
              IN  IF heldRoom(roomId).playbackState.isPlaying
                  THEN /\ rooms' = setRoom(rooms, roomId, room)
                       /\ tasks' = [tasks EXCEPT !.tick.pc = "set",
                                                 !.tick.serverTime = serverTime,
                                                 !.held = mapDelete(@, roomId)]
                       /\ emitted' = <<>>
                  ELSE /\ IF roomId \in DOMAIN rooms
                          THEN /\ rooms' = setRoom(rooms, roomId, room)
                               /\ tasks' = [tasks EXCEPT
                                               !.tick = tickNext(tasks.tick.todo)]
                          ELSE /\ UNCHANGED rooms
                               /\ tasks' = [tasks EXCEPT
                                               !.tick = tickNext(tasks.tick.todo),
                                               !.held = setRoom(@, roomId, room)]
                       /\ emitted' = <<syncEmit(roomId, room.playbackState, serverTime)>>
  /\ last' = Handler("sync", "none", "none", <<>>)
  /\ UNCHANGED <<activeSockets, joinedRooms, now, nextSync, issuedIds>>

\* from the return of setRoom to the next await: the emit, then the next room id
TickEmit ==
  /\ tasks.tick.pc = "set"
  /\ emitted' = <<syncEmit(tasks.tick.roomId, heldRoom(tasks.tick.roomId).playbackState,
                           tasks.tick.serverTime)>>
  /\ tasks' = [tasks EXCEPT !.tick = tickNext(tasks.tick.todo)]
  /\ last' = Handler("sync", "none", "none", <<>>)
  /\ UNCHANGED <<rooms, activeSockets, joinedRooms, now, nextSync, issuedIds>>

\* the message of the error a control handler answers a non-host with
permissionMessage(op) ==
  CASE op \in {"play", "pause"} -> "Only host can control playback"
    [] op = "seek" -> "Only host can seek"
    [] op = "change-source" -> "Only host can change video"

\* the state update of control handler `op`
intentState(op, pb, args, serverTime) ==
  CASE op = "play" -> playState(pb, serverTime)
    [] op = "pause" -> pauseState(pb, args[1], serverTime)
    [] op = "seek" -> seekState(pb, args[1], serverTime)
    [] op = "change-source" -> changeSourceState(args[1], args[2], serverTime)

\* a control handler starts: the host check, then `await getRoom(roomId)`
IntentBegin(op, c, roomId, args) ==
  /\ tasks.intent.pc = "idle"
  /\ IF ~isHostSocket(c)
     THEN /\ emitted' = <<errorEmit(c, permissionMessage(op))>>
          /\ UNCHANGED tasks
     ELSE /\ emitted' = <<>>
          /\ tasks' = [tasks EXCEPT
                          !.intent = [pc |-> "got", op |-> op, socket |-> c,
                                      roomId |-> roomId, args |-> args,
                                      hasRoom |-> roomId \in DOMAIN rooms,
                                      serverTime |-> 0],
                          !.overlap = tasks.tick.pc # "idle",
                          !.wrote = NoState]
  /\ last' = Handler(op, c, roomId, args)
  /\ UNCHANGED <<rooms, activeSockets, joinedRooms, now, nextSync, issuedIds>>

\* from the return of getRoom to `await setRoom`: `if (!room) return`, the state update
IntentWrite ==
  /\ tasks.intent.pc = "got"
  /\ LET h == tasks.intent
     IN  /\ IF ~h.hasRoom
            THEN /\ tasks' = [tasks EXCEPT !.intent.pc = "idle"]
                 /\ UNCHANGED rooms
            ELSE LET serverTime == now
                     room == [heldRoom(h.roomId) EXCEPT
                                !.playbackState =
                                   intentState(h.op, @, h.args, serverTime)]
                 IN  /\ rooms' = setRoom(rooms, h.roomId, room)
                     /\ tasks' = [tasks EXCEPT !.intent.pc = "set",
                                               !.intent.serverTime = serverTime,
                                               !.held = mapDelete(@, h.roomId),
                                               !.wrote = room.playbackState]
         /\ last' = Handler(h.op, h.socket, h.roomId, h.args)
  /\ emitted' = <<>>
  /\ UNCHANGED <<activeSockets, joinedRooms, now, nextSync, issuedIds>>

\* from the return of setRoom to the end of the handler: the emit
IntentEmit ==
  /\ tasks.intent.pc = "set"
  /\ LET h == tasks.intent
     IN  /\ emitted' = <<syncEmit(h.roomId, heldRoom(h.roomId).playbackState,
                                  h.serverTime)>>
         /\ last' = Handler(h.op, h.socket, h.roomId, h.args)
  /\ tasks' = [tasks EXCEPT !.intent.pc = "idle"]
  /\ UNCHANGED <<rooms, activeSockets, joinedRooms, now, nextSync, issuedIds>>

\* a second control handler, started while the first is suspended or not: the
\* same code, its own `room`, `serverTime` and position
SecondBegin(op, c, roomId, args) ==
  /\ tasks.second.pc = "idle"
  /\ IF ~isHostSocket(c)
     THEN /\ emitted' = <<errorEmit(c, permissionMessage(op))>>
          /\ UNCHANGED tasks
     ELSE /\ emitted' = <<>>
          /\ tasks' = [tasks EXCEPT
                          !.second = [pc |-> "got", op |-> op, socket |-> c,
                                      roomId |-> roomId, args |-> args,
                                      hasRoom |-> roomId \in DOMAIN rooms,
                                      serverTime |-> 0]]
  /\ last' = Handler(op, c, roomId, args)
  /\ UNCHANGED <<rooms, activeSockets, joinedRooms, now, nextSync, issuedIds>>

SecondWrite ==
  /\ tasks.second.pc = "got"
  /\ LET h == tasks.second
     IN  /\ IF ~h.hasRoom
            THEN /\ tasks' = [tasks EXCEPT !.second.pc = "idle"]
                 /\ UNCHANGED rooms
            ELSE LET serverTime == now
                     room == [heldRoom(h.roomId) EXCEPT
                                !.playbackState =
                                   intentState(h.op, @, h.args, serverTime)]
                 IN  /\ rooms' = setRoom(rooms, h.roomId, room)
                     /\ tasks' = [tasks EXCEPT !.second.pc = "set",
                                               !.second.serverTime = serverTime,
                                               !.held = mapDelete(@, h.roomId)]
         /\ last' = Handler(h.op, h.socket, h.roomId, h.args)
  /\ emitted' = <<>>
  /\ UNCHANGED <<activeSockets, joinedRooms, now, nextSync, issuedIds>>

SecondEmit ==
  /\ tasks.second.pc = "set"
  /\ LET h == tasks.second
     IN  /\ emitted' = <<syncEmit(h.roomId, heldRoom(h.roomId).playbackState,
                                  h.serverTime)>>
         /\ last' = Handler(h.op, h.socket, h.roomId, h.args)
  /\ tasks' = [tasks EXCEPT !.second.pc = "idle"]
  /\ UNCHANGED <<rooms, activeSockets, joinedRooms, now, nextSync, issuedIds>>

\* socket.on('disconnect') while callers may be suspended: the Room object that
\* `rooms.delete` removes from the Map stays with the callers that hold it
DisconnectHeld(c) ==
  /\ Disconnect(c)
  /\ tasks' = [tasks EXCEPT
                 !.held = [r \in (DOMAIN @) \cup ((DOMAIN rooms) \ (DOMAIN rooms')) |->
                             IF r \in DOMAIN rooms THEN rooms[r] ELSE @[r]]]

(* time passes; the interval timer fires on time *)

AdvanceBy(d, limit) ==
  /\ now + d <= limit
  /\ now + d <= nextSync
  /\ now' = now + d
  /\ emitted' = <<>>
  /\ last' = Handler("advance", "none", "none", <<d>>)
  /\ UNCHANGED <<rooms, activeSockets, joinedRooms, nextSync, issuedIds>>

(* time passes by d; the sync rounds that fall due on the way run, and nothing else *)

\* the time of the last sync round due by `until` (nextSync <= until)
lastDue(until) ==
  nextSync + ((until - nextSync) \div SYNC_INTERVAL) * SYNC_INTERVAL

\* The rounds at nextSync, nextSync + 3000, ..., lastDue add up: each adds the time
\* since the one before to a playing room's position and none touches a paused
\* room, so together they leave what one round at lastDue leaves.
\* (The sync-state emit calls of the rounds are not kept in `emitted`.)
AdvancePastSyncs(d, limit) ==
  /\ now + d <= limit
  /\ now' = now + d
  /\ IF nextSync > now + d
     THEN UNCHANGED <<rooms, nextSync>>
     ELSE /\ nextSync' = lastDue(now + d) + SYNC_INTERVAL
          /\ rooms' = [r \in DOMAIN rooms |->
                         IF r \in syncedRooms
                         THEN [rooms[r] EXCEPT
                                 !.playbackState = syncState(@, lastDue(now + d))]
                         ELSE rooms[r]]
  /\ emitted' = <<>>
  /\ last' = Handler("advance", "none", "none", <<d>>)
  /\ UNCHANGED <<activeSockets, joinedRooms, issuedIds>>

----------------------------------------------------------------------------
(* The browser of one participant: SocketService (services/socket.ts), the
   room store (stores/roomStore.ts, pages/Room.tsx) and the HTML5 branch of
   components/VideoPlayer.tsx.  The browser's clock shows now + client.skew.
   video.currentTime is held in ms and video.playbackRate in thousandths.
   The video element advances by playbackRate while it is not paused and has
   data to play (readyState >= HAVE_FUTURE_DATA).  video.play() is taken to
   succeed (the guests are muted for the autoplay policy). *)

\* no browser step touches the server
ServerIdle ==
  UNCHANGED <<rooms, activeSockets, joinedRooms, now, nextSync, issuedIds>>

\* Date.now() in the browser
localNow ==
  now + client.skew

\* updateServerTimeOffset: this.serverTimeOffset = Date.now() - serverTime
updateServerTimeOffset(localTime, serverTime) ==
  localTime - serverTime

\* getServerTime(): Date.now() - this.serverTimeOffset
getServerTime ==
  localNow - client.serverTimeOffset

\* socketService.calculateExpectedTime(playbackState), evaluated in the browser now
expectedTime(playbackState) ==
  calculateExpectedTime(playbackState, getServerTime)

\* the sync-state a control handler emitted at server time sentAt
hostBroadcast(isPlaying, currentTime, sentAt) ==
  [playbackState |-> [url |-> "a", currentTime |-> currentTime, isPlaying |-> isPlaying,
                      lastUpdated |-> sentAt, videoType |-> "mp4"],
   serverTime |-> sentAt]

\* the sync-state the periodic sync emitted at sentAt for the state the browser holds
tickBroadcast(sentAt) ==
  [playbackState |-> syncState(client.playbackState, sentAt), serverTime |-> sentAt]

\* the room page is opened
ClientOpen(skew) ==
  /\ ~client.mounted
  /\ client' = [client EXCEPT !.mounted = TRUE, !.skew = skew]
  /\ last' = Handler("client:open", "none", "none", <<skew>>)
  /\ emitted' = <<>>
  /\ ServerIdle

\* roomStore.updatePlaybackState: room = { ...room, playbackState }
updatePlaybackState(held, playbackState) ==
  playbackState

\* socket.on('sync-state') (and 'room-state', which stores room.playbackState the
\* same way): updateServerTimeOffset, then the store; React re-runs the effect later
ClientReceive(b) ==
  /\ client.mounted
  /\ b.serverTime <= now
  /\ client' = [client EXCEPT
                  !.serverTimeOffset =
                     updateServerTimeOffset(localNow, b.serverTime),
                  !.playbackState = updatePlaybackState(@, b.playbackState),
                  !.pending = TRUE]
  /\ last' = Handler("client:sync-state", "none", "none", <<b>>)
  /\ emitted' = <<>>
  /\ ServerIdle

\* x < 0 ? -x : x
magnitude(x) ==
  IF x < 0 THEN -x ELSE x

\* `Math.abs(initialDrift) > 1.0 && !isBufferingRef.current && video.readyState >= 3`
initialSeek(drift) ==
  /\ magnitude(drift) > INITIAL_SEEK_DRIFT
  /\ ~client.isBuffering
  /\ client.readyState >= HAVE_FUTURE_DATA

\* the playback-state effect of VideoPlayer: the cleanup of its previous run
\* (clearInterval, playbackRate = 1.0), then its body up to setInterval
RunEffect ==
  /\ client.pending
  /\ LET playbackState == client.playbackState
         drift == expectedTime(playbackState) - client.currentTime
         seeks == initialSeek(drift)
     IN  client' = [client EXCEPT
                      !.pending = FALSE,
                      !.closure = playbackState,
                      !.playbackRate = IF client.nextPoll = -1 THEN @ ELSE NORMAL_RATE,
                      !.currentTime = IF seeks THEN expectedTime(playbackState) ELSE @,
                      !.lastHardSeekAt = IF seeks THEN localNow ELSE @,
                      !.paused = ~playbackState.isPlaying,
                      !.nextPoll = localNow + POLL_INTERVAL]
  /\ last' = Handler("client:effect", "none", "none", <<>>)
  /\ emitted' = <<>>
  /\ ServerIdle

\* variant: the drift check never hard-seeks
hardSeekDue_Never(drift) ==
  FALSE

\* `Math.abs(drift) > 1.5 && video.readyState >= 3 && now - lastHardSeekAtRef.current > 2000`
hardSeekDue(drift) ==
  /\ magnitude(drift) > HARD_SEEK_DRIFT
  /\ client.readyState >= HAVE_FUTURE_DATA
  /\ localNow - client.lastHardSeekAt > HARD_SEEK_COOLDOWN

\* 1 + Math.max(-0.1, Math.min(0.1, drift > 0 ? 0.08 : -0.08))
desiredRate(drift) ==
  NORMAL_RATE + (IF drift > 0 THEN RATE_NUDGE ELSE -RATE_NUDGE)

\* `if (Math.abs(video.playbackRate - desired) > 0.01) video.playbackRate = desired`
setRate(rate, desired) ==
  IF magnitude(rate - desired) > RATE_TOLERANCE THEN desired ELSE rate

\* variant: the drift check goes on while the player buffers
pollSkips_Never ==
  FALSE

\* `if (isBufferingRef.current) { setLocalTime(current); return; }`
pollSkips ==
  client.isBuffering

\* the callback of the drift check interval
Poll ==
  /\ client.nextPoll = localNow
  /\ LET drift == expectedTime(client.closure) - client.currentTime
     IN  client' =
           IF client.paused \/ ~client.closure.isPlaying \/ pollSkips
           THEN [client EXCEPT !.nextPoll = @ + POLL_INTERVAL]
           ELSE IF hardSeekDue(drift)
           THEN [client EXCEPT !.nextPoll = @ + POLL_INTERVAL,
                               !.currentTime = expectedTime(client.closure),
                               !.playbackRate = NORMAL_RATE,
                               !.lastHardSeekAt = localNow]
           ELSE IF magnitude(drift) > SOFT_DRIFT /\ magnitude(drift) <= HARD_SEEK_DRIFT
           THEN [client EXCEPT !.nextPoll = @ + POLL_INTERVAL,
                               !.playbackRate = setRate(@, desiredRate(drift))]
           ELSE [client EXCEPT !.nextPoll = @ + POLL_INTERVAL,
                               !.playbackRate = setRate(@, NORMAL_RATE)]
  /\ last' = Handler("client:poll", "none", "none", <<>>)
  /\ emitted' = <<>>
  /\ ServerIdle

\* the media events the component listens to
VideoEvents ==
  {"waiting", "stalled", "playing", "canplay"}

\* handleWaiting, handleStalled, handlePlaying, handleCanPlay: the element runs out
\* of data on 'waiting' and has data again on 'playing' and 'canplay'
VideoEvent(e) ==
  /\ client.mounted
  /\ client' = [client EXCEPT
                  !.isBuffering = e \in {"waiting", "stalled"},
                  !.readyState = IF e = "waiting" THEN 2
                                 ELSE IF e = "stalled" THEN @ ELSE 4]
  /\ last' = Handler("client:video-event", "none", "none", <<e>>)
  /\ emitted' = <<>>
  /\ ServerIdle

\* d ms pass in the browser: the video plays on; the drift check is not late and
\* a pending effect has run before
VideoElapse(d) ==
  /\ ~client.pending
  /\ client.nextPoll = -1 \/ localNow + d <= client.nextPoll
  /\ client' = [client EXCEPT
                  !.currentTime =
                     IF ~client.paused /\ client.readyState >= HAVE_FUTURE_DATA
                     THEN @ + (d * client.playbackRate) \div NORMAL_RATE
                     ELSE @]
  /\ UNCHANGED <<ideal, sinceHost, before, received, tasks, backends>>

\* the browser's variable and the history variables of the server stay
ClientOnly ==
  UNCHANGED <<ideal, sinceHost, before, received, tasks, backends>>

----------------------------------------------------------------------------
(* The room store of storage/rooms (backend/src/index.ts 68-146), run twice on
   the same calls: once with useRedis false (the Map memRooms) and once with
   useRedis true.  The Map holds the caller's Room objects themselves; Redis
   holds JSON text, and every getRoom parses a new object.  JSON text is held
   as the record of what the text says: a Date is written as a string. *)

\* JSON.stringify(room)
stringify(room) ==
  [room EXCEPT !.createdAt = IF @[1] = "Date" THEN <<"string", @[2]>> ELSE @]

\* JSON.parse(raw) as Room
parse(raw) ==
  raw

\* what a caller that sends the result on (res.json) makes of a Room or null
onTheWire(room) ==
  IF room = NoRoom THEN NoRoom ELSE stringify(room)

\* the caller builds a Room and calls setRoom(roomId, room) (as POST /api/rooms does)
StoreNew(roomId, random) ==
  /\ roomId \notin DOMAIN backends.memRooms
  /\ LET room == [id |-> roomId, code |-> generateRoomCode(random),
                  name |-> "movie night", createdAt |-> <<"Date", now>>]
     IN  backends' = [backends EXCEPT
                        !.memRooms = setRoom(@, roomId, room),
                        !.memOrder = Append(@, roomId),
                        !.memHeld = roomId,
                        !.redisRooms = setRoom(@, roomId, stringify(room)),
                        !.redisCodes = setRoom(@, room.code, roomId),
                        !.redisIds = @ \cup {roomId},
                        !.redisHeld = room]
  /\ last' = Handler("store:new", "none", roomId, <<random>>)
  /\ emitted' = <<>>
  /\ ServerIdle

\* `if (room.code) tx.set(roomCodeKey(room.code), roomId)`
putCodes(codes, room) ==
  IF room.code # 0 THEN setRoom(codes, room.code, room.id) ELSE codes

\* setRoom(room.id, room) with the Room the caller holds
StorePut ==
  /\ backends.memHeld # "null"
  /\ backends.redisHeld # NoRoom
  /\ backends' = [backends EXCEPT
                    !.redisRooms = setRoom(@, backends.redisHeld.id,
                                           stringify(backends.redisHeld)),
                    !.redisCodes = putCodes(@, backends.redisHeld),
                    !.redisIds = @ \cup {backends.redisHeld.id}]
  /\ last' = Handler("store:put", "none", backends.memHeld, <<>>)
  /\ emitted' = <<>>
  /\ ServerIdle

\* getRoom(roomId) on Redis: `raw ? JSON.parse(raw) : null`
redisGet(roomId) ==
  IF roomId \in DOMAIN backends.redisRooms THEN parse(backends.redisRooms[roomId])
  ELSE NoRoom

\* getRoom(roomId); the caller keeps what it got
StoreGet(roomId) ==
  /\ backends' = [backends EXCEPT
                    !.memResult = IF roomId \in DOMAIN backends.memRooms
                                  THEN backends.memRooms[roomId] ELSE NoRoom,
                    !.memHeld = IF roomId \in DOMAIN backends.memRooms
                                THEN roomId ELSE "null",
                    !.redisResult = redisGet(roomId),
                    !.redisHeld = redisGet(roomId)]
  /\ last' = Handler("store:get", "none", roomId, <<>>)
  /\ emitted' = <<>>
  /\ ServerIdle

\* the first id, in the Map's order, whose room has the code; "null" if there is none
RECURSIVE firstWithCode(_, _)
firstWithCode(order, code) ==
  IF order = <<>> THEN "null"
  ELSE IF backends.memRooms[Head(order)].code = code THEN Head(order)
  ELSE firstWithCode(Tail(order), code)

\* findRoomByCode(code); the caller keeps what it got
StoreFind(code) ==
  /\ LET found == firstWithCode(backends.memOrder, code)
         roomId == IF code \in DOMAIN backends.redisCodes
                   THEN backends.redisCodes[code] ELSE "null"
     IN  backends' = [backends EXCEPT
                        !.memResult = IF found = "null" THEN NoRoom
                                      ELSE backends.memRooms[found],
                        !.memHeld = found,
                        !.redisResult = redisGet(roomId),
                        !.redisHeld = redisGet(roomId)]
  /\ last' = Handler("store:find", "none", "none", <<code>>)
  /\ emitted' = <<>>
  /\ ServerIdle

\* getRoomsCount(): memRooms.size, and the size of the set rooms:ids
StoreCount ==
  /\ backends' = [backends EXCEPT
                    !.memCount = Len(backends.memOrder),
                    !.redisCount = Cardinality(backends.redisIds)]
  /\ last' = Handler("store:count", "none", "none", <<>>)
  /\ emitted' = <<>>
  /\ ServerIdle

\* the caller assigns to a field of the Room it holds and does not call setRoom
StoreMutate(name) ==
  /\ backends.memHeld # "null"
  /\ backends.redisHeld # NoRoom
  /\ backends' = [backends EXCEPT
                    !.memRooms[backends.memHeld].name = name,
                    !.redisHeld.name = name]
  /\ last' = Handler("store:mutate", "none", backends.memHeld, <<name>>)
  /\ emitted' = <<>>
  /\ ServerIdle

\* the caller assigns to a field of the Room it holds and calls setRoom(room.id, room)
\* (as POST /:roomId/join does)
StoreUpdate(name) ==
  /\ backends.memHeld # "null"
  /\ backends.redisHeld # NoRoom
  /\ LET room == [backends.redisHeld EXCEPT !.name = name]
     IN  backends' = [backends EXCEPT
                        !.memRooms[backends.memHeld].name = name,
                        !.redisHeld = room,
                        !.redisRooms = setRoom(@, room.id, stringify(room)),
                        !.redisCodes = putCodes(@, room),
                        !.redisIds = @ \cup {room.id}]
  /\ last' = Handler("store:update", "none", backends.memHeld, <<name>>)
  /\ emitted' = <<>>
  /\ ServerIdle

\* the history variables and the browser stay
StoreOnly ==
  UNCHANGED <<ideal, sinceHost, before, received, tasks, client>>

----------------------------------------------------------------------------
(* Observers.  ideal, sinceHost and before are history variables: no handler
   reads them.  The clock specification keeps them up to date with Track; the
   other specifications leave them at their initial values. *)

ControlOps == {"play", "pause", "seek", "change-source"}

\* connection c holds the presence of room roomId's host, and the room is in the store
isHostOf(c, roomId) ==
  /\ roomId \in DOMAIN rooms
  /\ c \in DOMAIN activeSockets
  /\ activeSockets[c].roomId = roomId
  /\ activeSockets[c].userId = rooms[roomId].hostId

\* what the host's intent asks of an independent clock showing position `shown`
idealAfter(shown, op, args) ==
  CASE op = "play" -> [shown EXCEPT !.isPlaying = TRUE]
    [] op = "pause" -> [currentTime |-> args[1], isPlaying |-> FALSE]
    [] op = "seek" -> [shown EXCEPT !.currentTime = args[1]]
    [] op = "change-source" -> [currentTime |-> 0, isPlaying |-> FALSE]

Track ==
  LET op == last'.op
      roomId == last'.roomId
      restart == \/ op = "create-room"
                 \/ op \in ControlOps /\ isHostOf(last'.socket, roomId)
  IN  /\ ideal' = [r \in RoomIds |->
                     IF op = "advance" /\ ideal[r].isPlaying
                     THEN [ideal[r] EXCEPT !.currentTime = @ + (now' - now)]
                     ELSE IF op = "create-room" /\ r = roomId
                     THEN [currentTime |-> 0, isPlaying |-> FALSE]
                     ELSE IF restart /\ r = roomId
                     THEN idealAfter(ideal[r], op, last'.args)
                     ELSE ideal[r]]
      /\ sinceHost' = [r \in RoomIds |->
                         IF restart /\ r = roomId
                         THEN [syncs |-> 0,
                               currentTime |-> rooms'[r].playbackState.currentTime,
                               at |-> rooms'[r].playbackState.lastUpdated,
                               intent |-> <<op, last'.args>>]
                         ELSE IF op = "sync" /\ r \in syncedRooms
                         THEN [sinceHost[r] EXCEPT !.syncs = @ + 1]
                         ELSE sinceHost[r]]
      /\ before' = IF roomId \in DOMAIN rooms
                   THEN [playbackState |-> rooms[roomId].playbackState,
                         intent |-> sinceHost[roomId].intent]
                   ELSE [playbackState |-> NoState, intent |-> <<"none", <<>>>>]
      /\ UNCHANGED <<received, tasks, client, backends>>

\* the playbackState an emitted room-state or sync-state carries
stateOf(call) ==
  IF call.event = "room-state" THEN call.body.room.playbackState
  ELSE call.body.playbackState

\* what each connection was sent last.  socket.io hands the packets of one
\* connection to its transport in the order of the emit calls; a new connection
\* has been sent nothing.
Observe ==
  /\ received' =
       [c \in Connections |->
          IF last'.op = "disconnect" /\ last'.socket = c
          THEN NoState
          ELSE LET got == SelectSeq(emitted', LAMBDA e :
                                      /\ e.event \in {"room-state", "sync-state"}
                                      /\ c \in e.to)
               IN  IF got = <<>> THEN received[c] ELSE stateOf(got[Len(got)])]
  /\ UNCHANGED <<ideal, sinceHost, before, tasks, client, backends>>

Freeze ==
  UNCHANGED <<ideal, sinceHost, before, received, tasks, client, backends>>

----------------------------------------------------------------------------
(* Specifications *)

\* the server with its connections, users and rooms
Next ==
  \/ \E r \in RoomIds, m \in MaxParticipantsChoices :
        CreateRoom(r, RandomOfRoom[r], HostOfRoom[r], m) /\ Freeze
  \/ \E c \in SocketIds, r \in RoomIds, u \in UserIds : JoinRoom(c, r, u) /\ Freeze
  \/ \E c \in SocketIds, r \in ControlledRooms : Play(c, r) /\ Freeze
  \/ \E c \in SocketIds, r \in ControlledRooms, p \in Positions : Pause(c, r, p) /\ Freeze
  \/ \E c \in SocketIds, r \in ControlledRooms, p \in Positions : Seek(c, r, p) /\ Freeze
  \/ \E c \in SocketIds, r \in ControlledRooms, s \in Sources :
        ChangeSource(c, r, s[1], s[2]) /\ Freeze
  \/ \E c \in SocketIds : Disconnect(c) /\ Freeze
  \/ SyncTick /\ Freeze
  \/ \E d \in CoarseSteps : AdvanceBy(d, MaxNow) /\ Freeze

Spec == Init /\ [][Next]_vars

\* one room and its host, with the clock read between the syncs, observed
NextClock ==
  \/ CreateRoom("r1", RandomOfRoom["r1"], "u1", 2) /\ Track
  \/ JoinRoom("s1", "r1", "u1") /\ Track
  \/ Play("s1", "r1") /\ Track
  \/ \E p \in ClockPositions : Pause("s1", "r1", p) /\ Track
  \/ \E p \in ClockPositions : Seek("s1", "r1", p) /\ Track
  \/ \E s \in ClockSources : ChangeSource("s1", "r1", s[1], s[2]) /\ Track
  \/ SyncTick /\ Track
  \/ \E d \in FineSteps : AdvanceBy(d, ClockMaxNow) /\ Track

SpecClock == Init /\ [][NextClock]_vars

\* one room and its host, with intents arriving 100 ms apart, observed
NextRace ==
  \/ CreateRoom("r1", RandomOfRoom["r1"], "u1", 2) /\ Track
  \/ JoinRoom("s1", "r1", "u1") /\ Track
  \/ Play("s1", "r1") /\ Track
  \/ \E p \in ClockPositions : Pause("s1", "r1", p) /\ Track
  \/ \E p \in ClockPositions : Seek("s1", "r1", p) /\ Track
  \/ \E s \in ClockSources : ChangeSource("s1", "r1", s[1], s[2]) /\ Track
  \/ \E d \in RaceSteps : AdvanceBy(d, RaceMaxNow) /\ Track

SpecRace == Init /\ [][NextRace]_vars

\* one room of two places and three users who join it over HTTP and over sockets
NextCapacity ==
  \/ \E m \in MaxParticipantsChoices : CreateRoom("r1", RandomOfRoom["r1"], "u1", m) /\ Freeze
  \/ \E u \in CapacityUserIds : HttpJoin("r1", u) /\ Freeze
  \/ \E c \in SocketIds, u \in CapacityUserIds : JoinRoom(c, "r1", u) /\ Freeze
  \/ \E c \in SocketIds : Disconnect(c) /\ Freeze

SpecCapacity == Init /\ [][NextCapacity]_vars

\* the (room, user) pairs the join-room requests of specification SpecBan carry
BanJoins == {<<"r1", "u1">>, <<"r1", "u2">>, <<"r2", "u2">>}

\* two rooms, joins, kicks and the ban window, with the clock moving ten minutes at a time
NextBan ==
  \/ \E r \in RoomIds, m \in MaxParticipantsChoices :
        CreateRoom(r, RandomOfRoom[r], HostOfRoom[r], m) /\ Freeze
  \/ \E c \in SocketIds, j \in BanJoins : JoinRoom(c, j[1], j[2]) /\ Freeze
  \/ \E c \in SocketIds : JoinRoomMalformed(c) /\ Freeze
  \/ \E r \in KickRooms, u \in UserIds : HttpJoin(r, u) /\ Freeze
  \/ \E c \in SocketIds, r \in KickRooms, u \in UserIds : KickUser(c, r, u) /\ Freeze
  \/ \E c \in SocketIds : Disconnect(c) /\ Freeze
  \/ \E d \in BanSteps : AdvancePastSyncs(d, BanMaxNow) /\ Freeze

SpecBan == Init /\ [][NextBan]_vars

\* one room, its host and guests on three connections (a user may hold several),
\* HTTP joins, kicks, disconnects and the periodic sync
NextKick ==
  \/ \E m \in MaxParticipantsChoices : CreateRoom("r1", RandomOfRoom["r1"], "u1", m) /\ Freeze
  \/ \E u \in CapacityUserIds : HttpJoin("r1", u) /\ Freeze
  \/ \E c \in Connections, u \in CapacityUserIds : JoinRoom(c, "r1", u) /\ Freeze
  \/ \E c \in Connections, u \in CapacityUserIds : KickUser(c, "r1", u) /\ Freeze
  \/ \E c \in Connections : Disconnect(c) /\ Freeze
  \/ SyncTick /\ Freeze
  \/ \E d \in CoarseSteps : AdvanceBy(d, KickMaxNow) /\ Freeze

SpecKick == Init /\ [][NextKick]_vars

\* the (room, user) pairs the join-room requests of specification SpecRoster carry
RosterJoins == {<<"r1", "u1">>, <<"r1", "u2">>, <<"r1", "u3">>, <<"r2", "u2">>}

\* two rooms of two seats and three users: creation, HTTP joins, socket joins,
\* kicks from r1 (of its host, too, and by the host of r2) and disconnects, with
\* the clock moving by a ban window at a time so that bans expire
NextRoster ==
  \/ \E r \in RoomIds, m \in MaxParticipantsChoices :
        CreateRoom(r, RandomOfRoom[r], HostOfRoom[r], m) /\ Freeze
  \/ \E r \in KickRooms, u \in CapacityUserIds : HttpJoin(r, u) /\ Freeze
  \/ \E c \in SocketIds, j \in RosterJoins : JoinRoom(c, j[1], j[2]) /\ Freeze
  \/ \E c \in SocketIds, r \in KickRooms, u \in CapacityUserIds : KickUser(c, r, u) /\ Freeze
  \/ \E c \in SocketIds : Disconnect(c) /\ Freeze
  \/ \E d \in RosterSteps : AdvancePastSyncs(d, RosterMaxNow) /\ Freeze

SpecRoster == Init /\ [][NextRoster]_vars

\* one room, three connections, and the signalling messages they send
NextRelay ==
  \/ \E m \in MaxParticipantsChoices : CreateRoom("r1", RandomOfRoom["r1"], "u1", m) /\ Freeze
  \/ \E c \in Connections, u \in UserIds : JoinRoom(c, "r1", u) /\ Freeze
  \/ \E c \in Connections, t \in RelayTargets, p \in Payloads :
        WebrtcOffer(c, "r1", t, p) /\ Freeze
  \/ \E c \in Connections, t \in RelayTargets, p \in Payloads :
        WebrtcAnswer(c, "r1", t, p) /\ Freeze
  \/ \E c \in Connections, t \in RelayTargets, p \in Payloads :
        WebrtcIceCandidate(c, "r1", t, p) /\ Freeze
  \/ \E c \in Connections : Disconnect(c) /\ Freeze

SpecRelay == Init /\ [][NextRelay]_vars

\* who joins on which connection in specification SpecOrder: the host and a guest
OrderJoins == {<<"s1", "u1">>, <<"s2", "u2">>}

\* one room, its host and a guest, with what each connection is sent observed
NextOrder ==
  \/ \E m \in MaxParticipantsChoices : CreateRoom("r1", RandomOfRoom["r1"], "u1", m) /\ Observe
  \/ \E j \in OrderJoins : JoinRoom(j[1], "r1", j[2]) /\ Observe
  \/ \E c \in SocketIds : Play(c, "r1") /\ Observe
  \/ \E c \in SocketIds, p \in ReportedPositions : Pause(c, "r1", p) /\ Observe
  \/ \E c \in SocketIds, p \in ReportedPositions : Seek(c, "r1", p) /\ Observe
  \/ \E c \in SocketIds, s \in Sources : ChangeSource(c, "r1", s[1], s[2]) /\ Observe
  \/ \E c \in SocketIds, u \in UserIds : KickUser(c, "r1", u) /\ Observe
  \/ \E c \in SocketIds : Disconnect(c) /\ Observe
  \/ SyncTick /\ Observe
  \/ \E d \in FineSteps : AdvanceBy(d, OrderMaxNow) /\ Observe

SpecOrder == Init /\ [][NextOrder]_vars

\* the control intents the host sends in specification SpecAwait
AwaitIntents ==
  {<<"play", <<>>>>, <<"pause", <<50000>>>>, <<"seek", <<50000>>>>,
   <<"change-source", <<"a", "youtube">>>>}

\* the history variables the pieces of a handler leave alone
Unobserved ==
  UNCHANGED <<ideal, sinceHost, before, received, client, backends>>

\* one room and its host; the sync callback and the control handlers run piecewise
NextAwait ==
  \/ \E m \in MaxParticipantsChoices : CreateRoom("r1", RandomOfRoom["r1"], "u1", m) /\ Freeze
  \/ JoinRoom("s1", "r1", "u1") /\ Freeze
  \/ \E i \in AwaitIntents : IntentBegin(i[1], "s1", "r1", i[2]) /\ Unobserved
  \/ IntentWrite /\ Unobserved
  \/ IntentEmit /\ Unobserved
  \/ TickBegin /\ Unobserved
  \/ TickWrite /\ Unobserved
  \/ TickEmit /\ Unobserved
  \/ \E d \in FineSteps : AdvanceBy(d, AwaitMaxNow) /\ Freeze

SpecAwait == Init /\ [][NextAwait]_vars

\* one room and its host, who sends control intents one after the other without
\* waiting: two handlers and the sync callback run piecewise
NextPair ==
  \/ \E m \in MaxParticipantsChoices : CreateRoom("r1", RandomOfRoom["r1"], "u1", m) /\ Freeze
  \/ JoinRoom("s1", "r1", "u1") /\ Freeze
  \/ \E i \in AwaitIntents : IntentBegin(i[1], "s1", "r1", i[2]) /\ Unobserved
  \/ IntentWrite /\ Unobserved
  \/ IntentEmit /\ Unobserved
  \/ \E i \in AwaitIntents : SecondBegin(i[1], "s1", "r1", i[2]) /\ Unobserved
  \/ SecondWrite /\ Unobserved
  \/ SecondEmit /\ Unobserved
  \/ TickBegin /\ Unobserved
  \/ TickWrite /\ Unobserved
  \/ TickEmit /\ Unobserved
  \/ \E d \in FineSteps : AdvanceBy(d, PairMaxNow) /\ Freeze

SpecPair == Init /\ [][NextPair]_vars

\* one room, its host and a guest; the sync callback and the host's control
\* handlers run piecewise, and connections close between the pieces
NextClose ==
  \/ \E m \in MaxParticipantsChoices : CreateRoom("r1", RandomOfRoom["r1"], "u1", m) /\ Freeze
  \/ \E j \in OrderJoins : JoinRoom(j[1], "r1", j[2]) /\ Freeze
  \/ \E i \in AwaitIntents : IntentBegin(i[1], "s1", "r1", i[2]) /\ Unobserved
  \/ IntentWrite /\ Unobserved
  \/ IntentEmit /\ Unobserved
  \/ TickBegin /\ Unobserved
  \/ TickWrite /\ Unobserved
  \/ TickEmit /\ Unobserved
  \/ \E c \in SocketIds : DisconnectHeld(c) /\ Unobserved
  \/ \E d \in FineSteps : AdvanceBy(d, CloseMaxNow) /\ Freeze

SpecClose == Init /\ [][NextClose]_vars

\* rooms created with drawn join codes, looked up by code, joined and closed
NextCodes ==
  \/ \E r \in RoomIds, x \in RandomDraws, m \in MaxParticipantsChoices :
        CreateRoom(r, x, HostOfRoom[r], m) /\ Freeze
  \/ \E x \in RandomDraws : GetRoomByCode(generateRoomCode(x)) /\ Freeze
  \/ \E c \in SocketIds, r \in RoomIds, u \in UserIds : JoinRoom(c, r, u) /\ Freeze
  \/ \E c \in SocketIds : Disconnect(c) /\ Freeze

SpecCodes == Init /\ [][NextCodes]_vars

\* one room, its host and a guest, and the chat messages of the host's connection
\* (sent before it joins, too)
NextChat ==
  \/ \E m \in MaxParticipantsChoices : CreateRoom("r1", RandomOfRoom["r1"], "u1", m) /\ Freeze
  \/ \E j \in OrderJoins : JoinRoom(j[1], "r1", j[2]) /\ Freeze
  \/ \E t \in ChatTexts :
        /\ Cardinality(issuedIds) < MaxIssued
        /\ ChatMessage("s1", "r1", t) /\ Freeze
  \/ \E c \in SocketIds : Disconnect(c) /\ Freeze

SpecChat == Init /\ [][NextChat]_vars

\* the two stores under every sequence of calls
NextStore ==
  \/ \E r \in RoomIds, x \in RandomDraws : StoreNew(r, x) /\ StoreOnly
  \/ StorePut /\ StoreOnly
  \/ \E r \in RoomIds : StoreGet(r) /\ StoreOnly
  \/ \E x \in RandomDraws : StoreFind(generateRoomCode(x)) /\ StoreOnly
  \/ StoreCount /\ StoreOnly
  \/ \E n \in RoomNames : StoreMutate(n) /\ StoreOnly

SpecStore == Init /\ [][NextStore]_vars

\* the two stores used as the routers use them: every room has its own join code
\* and every change of a Room is followed by setRoom before the next call
NextStoreSaved ==
  \/ \E r \in RoomIds : StoreNew(r, RandomOfRoom[r]) /\ StoreOnly
  \/ \E r \in RoomIds : StoreGet(r) /\ StoreOnly
  \/ \E x \in RandomDraws : StoreFind(generateRoomCode(x)) /\ StoreOnly
  \/ StoreCount /\ StoreOnly
  \/ \E n \in RoomNames : StoreUpdate(n) /\ StoreOnly

SpecStoreSaved == Init /\ [][NextStoreSaved]_vars

\* one browser with nothing wrong with its video element, sent the host's play
\* over a network with a delay; the clocks of browser and server differ
NextExpect ==
  \/ \E k \in ClientSkews : ClientOpen(k) /\ ClientOnly
  \/ \E p \in HostPositions, d \in NetDelays :
        /\ now >= d
        /\ ClientReceive(hostBroadcast(TRUE, p, now - d)) /\ ClientOnly
  \/ RunEffect /\ ClientOnly
  \/ Poll /\ ClientOnly
  \/ \E d \in ExpectSteps : AdvancePastSyncs(d, ExpectMaxNow) /\ VideoElapse(d)

SpecExpect == Init /\ [][NextExpect]_vars

\* the broadcasts that reach the browser of specification SpecPlayer at once: a
\* control intent of the host, or the periodic sync of the state the browser holds
PlayerBroadcasts ==
  {hostBroadcast(playing, p, now) : playing \in BOOLEAN, p \in HostPositions}
    \cup (IF client.playbackState = NoState THEN {} ELSE {tickBroadcast(now)})

\* one browser whose video element stalls and recovers, and the broadcasts of a room
NextPlayer ==
  \/ \E k \in {10000} : ClientOpen(k) /\ ClientOnly
  \/ \E b \in PlayerBroadcasts : ClientReceive(b) /\ ClientOnly
  \/ RunEffect /\ ClientOnly
  \/ Poll /\ ClientOnly
  \/ \E e \in VideoEvents : VideoEvent(e) /\ ClientOnly
  \/ \E d \in PlayerSteps : AdvancePastSyncs(d, PlayerMaxNow) /\ VideoElapse(d)

SpecPlayer == Init /\ [][NextPlayer]_vars

\* one browser behind a transport that delays, reorders and repeats the broadcasts:
\* any sync-state the host's handlers emitted so far may arrive now
NextReorder ==
  \/ \E k \in {10000} : ClientOpen(k) /\ ClientOnly
  \/ \E playing \in BOOLEAN, p \in HostPositions, t \in SentTimes :
        ClientReceive(hostBroadcast(playing, p, t)) /\ ClientOnly
  \/ RunEffect /\ ClientOnly
  \/ Poll /\ ClientOnly
  \/ \E d \in PlayerSteps : AdvancePastSyncs(d, ReorderMaxNow) /\ VideoElapse(d)

SpecReorder == Init /\ [][NextReorder]_vars

\* one browser in a playing room, whose video element stalls and recovers
NextDrift ==
  \/ \E k \in {10000} : ClientOpen(k) /\ ClientOnly
  \/ \E b \in {hostBroadcast(TRUE, p, now) : p \in HostPositions} : ClientReceive(b) /\ ClientOnly
  \/ RunEffect /\ ClientOnly
  \/ Poll /\ ClientOnly
  \/ \E e \in VideoEvents : VideoEvent(e) /\ ClientOnly
  \/ \E d \in DriftSteps : AdvancePastSyncs(d, DriftMaxNow) /\ VideoElapse(d)

\* the browser's scheduling: React runs a pending effect, the interval timer
\* fires when it is due, and time passes
FairDrift ==
  /\ WF_vars(RunEffect /\ ClientOnly)
  /\ WF_vars(Poll /\ ClientOnly)
  /\ WF_vars(\E d \in DriftSteps : AdvancePastSyncs(d, DriftMaxNow) /\ VideoElapse(d))

SpecDrift == Init /\ [][NextDrift]_vars /\ FairDrift

----------------------------------------------------------------------------
(* Properties *)

PermissionMessages ==
  {"Only host can control playback", "Only host can seek", "Only host can change video"}

\* an error event with one of `messages` was sent to connection c and to nobody else
errorSentTo(calls, c, messages) ==
  \E i \in 1..Len(calls) :
    /\ calls[i].event = "error"
    /\ calls[i].to = {c}
    /\ calls[i].body.message \in messages

\* the sync-state emit calls among `calls`
syncCalls(calls) ==
  SelectSeq(calls, LAMBDA e : e.event = "sync-state")

\* the last handler was a control intent the code let through to an existing room
mutated ==
  /\ last.op \in ControlOps
  /\ isHostSocket(last.socket)
  /\ last.roomId \in DOMAIN rooms

\* C1: a play, pause, seek or change-source intent naming an existing room R that
\* arrives on a connection which is not the host of R (no presence, a non-host
\* presence in R, or the host presence of another room) is answered with a
\* permission error to that connection, and R's playbackState is the same before
\* and after.
C1_NonHostIntentRejected ==
  [][ ( /\ last'.op \in ControlOps
        /\ last'.roomId \in DOMAIN rooms
        /\ ~isHostOf(last'.socket, last'.roomId) )
      => ( /\ errorSentTo(emitted', last'.socket, PermissionMessages)
           /\ last'.roomId \in DOMAIN rooms'
           /\ rooms'[last'.roomId].playbackState = rooms[last'.roomId].playbackState )
    ]_vars

C10_MissingRoomReported ==
  [][ ( /\ last'.op \in ControlOps
        /\ isHostSocket(last'.socket)
        /\ last'.roomId \notin DOMAIN rooms )
      => ( /\ rooms' = rooms
           /\ activeSockets' = activeSockets
           /\ joinedRooms' = joinedRooms
           /\ errorSentTo(emitted', last'.socket, {"Room not found"}) )
    ]_vars

\* the emit calls of event `event` among `calls`
callsOf(calls, event) ==
  SelectSeq(calls, LAMBDA e : e.event = event)

\* C11: when a connection whose presence is flagged host of a room R in the store
\* disconnects, R leaves the store, one room-closed event goes to every other
\* connection joined to R (every remaining presence of R among them), and no
\* remaining presence changes: none becomes host.
C11_HostLeavesRoomCloses ==
  [][ ( /\ last'.op = "disconnect"
        /\ isHostSocket(last'.socket)
        /\ activeSockets[last'.socket].roomId \in DOMAIN rooms )
      => LET c == last'.socket
             R == activeSockets[c].roomId
             closed == callsOf(emitted', "room-closed")
         IN  /\ R \notin DOMAIN rooms'
             /\ DOMAIN rooms' = DOMAIN rooms \ {R}
             /\ Len(closed) = 1
             /\ closed[1].to = {x \in Connections \ {c} : R \in joinedRooms[x]}
             /\ \A x \in DOMAIN activeSockets \ {c} :
                  activeSockets[x].roomId = R => x \in closed[1].to
             /\ DOMAIN activeSockets' = DOMAIN activeSockets \ {c}
             /\ \A x \in DOMAIN activeSockets' : activeSockets'[x] = activeSockets[x]
    ]_vars

\* a host has disconnected and a non-host presence of its room was told room-closed
C11_Witness ==
  /\ last.op = "disconnect"
  /\ \E i \in 1..Len(emitted) :
       /\ emitted[i].event = "room-closed"
       /\ \E x \in DOMAIN activeSockets :
            /\ x \in emitted[i].to
            /\ ~activeSockets[x].isHost
            /\ activeSockets[x].roomId \notin DOMAIN rooms

\* userId is in the room's roster
inRoster(room, userId) ==
  \E i \in 1..Len(room.participants) : room.participants[i] = userId

\* an HTTP answer with this status and message was sent
answered(calls, status, message) ==
  \E i \in 1..Len(calls) :
    /\ calls[i].event = "http-response"
    /\ calls[i].body.status = status
    /\ calls[i].body.message = message

\* C12: a join (POST /:roomId/join, or join-room on a socket) of an existing room
\* by a user who is not banned and not yet in its roster is rejected with a
\* room-full error, roster and presence unchanged, when the roster holds
\* maxParticipants users, and succeeds when it holds maxParticipants - 1.
C12_CapacityOnEveryJoinPath ==
  [][ ( /\ last'.op \in {"join-room", "http-join"}
        /\ last'.roomId \in DOMAIN rooms
        /\ ~isBanned(rooms[last'.roomId], last'.args[1], now)
        /\ ~inRoster(rooms[last'.roomId], last'.args[1]) )
      => LET room == rooms[last'.roomId]
             userId == last'.args[1]
             c == last'.socket
             http == last'.op = "http-join"
         IN  /\ Len(room.participants) = room.maxParticipants =>
                  /\ rooms' = rooms
                  /\ activeSockets' = activeSockets
                  /\ IF http THEN answered(emitted', 403, "Room is full")
                             ELSE errorSentTo(emitted', c, {"Room is full"})
             /\ Len(room.participants) = room.maxParticipants - 1 =>
                  IF http
                  THEN inRoster(rooms'[last'.roomId], userId)
                  ELSE /\ c \in DOMAIN activeSockets'
                       /\ activeSockets'[c].userId = userId
                       /\ activeSockets'[c].roomId = last'.roomId
    ]_vars

BanMessage == "You are temporarily banned. Try again in N minute(s)."

\* the least whole number of minutes that covers ms milliseconds
ceilMinutes(ms) ==
  CHOOSE n \in 0..60 : n * 60000 >= ms /\ (n - 1) * 60000 < ms

\* the last handler was a join (socket or HTTP) and was refused with the ban message
bannedAnswer(calls, op, c) ==
  \E i \in 1..Len(calls) :
    /\ IF op = "http-join"
       THEN calls[i].event = "http-response" /\ calls[i].body.status = 403
       ELSE calls[i].event = "error" /\ calls[i].to = {c}
    /\ calls[i].body.message = BanMessage

\* a kick-result with this ok flag was sent to connection c and to nobody else
kickAnswered(calls, c, ok) ==
  \E i \in 1..Len(calls) :
    /\ calls[i].event = "kick-result"
    /\ calls[i].to = {c}
    /\ calls[i].body.ok = ok

\* C13: a successful kick of user U from a room in the store at time t0 sets the
\* room's bannedUntil[U] to t0 + 30 minutes.  A join by U (join-room or HTTP join)
\* at a time t before bannedUntil[U] is refused with the ban message naming
\* ceil((bannedUntil[U] - t) / 60000) minutes and changes neither store nor
\* presence; from bannedUntil[U] on the ban refuses nothing and join-room succeeds.
C13_BanWindow ==
  [][ /\ ( /\ last'.op = "kick-user"
           /\ kickAnswered(emitted', last'.socket, TRUE)
           /\ last'.roomId \in DOMAIN rooms )
         => /\ last'.roomId \in DOMAIN rooms'
            /\ rooms'[last'.roomId].bannedUntil[last'.args[1]] = now + 30 * 60000
      /\ ( /\ last'.op \in {"join-room", "http-join"}
           /\ last'.roomId \in DOMAIN rooms
           /\ last'.args[1] \in DOMAIN rooms[last'.roomId].bannedUntil )
         => LET until == rooms[last'.roomId].bannedUntil[last'.args[1]]
                c == last'.socket
            IN  IF now < until
                THEN /\ bannedAnswer(emitted', last'.op, c)
                     /\ Len(emitted') = 1
                     /\ emitted'[1].body.N = ceilMinutes(until - now)
                     /\ rooms' = rooms
                     /\ activeSockets' = activeSockets
                     /\ joinedRooms' = joinedRooms
                ELSE /\ ~bannedAnswer(emitted', last'.op, c)
                     /\ last'.op = "join-room" =>
                          /\ c \in DOMAIN activeSockets'
                          /\ activeSockets'[c].userId = last'.args[1]
                          /\ activeSockets'[c].roomId = last'.roomId
    ]_vars

\* ten minutes after the kick, a join-room of the kicked user is refused: 20 minutes left
C13_Witness ==
  /\ last.op = "join-room"
  /\ last.roomId \in DOMAIN rooms
  /\ last.args[1] \in DOMAIN rooms[last.roomId].bannedUntil
  /\ rooms[last.roomId].bannedUntil[last.args[1]] - now = 20 * 60000
  /\ Len(emitted) = 1
  /\ emitted[1].event = "error"
  /\ emitted[1].body.message = BanMessage
  /\ emitted[1].body.N = 20
  /\ last.socket \notin DOMAIN activeSockets

\* the ban has run out and the kicked user is back in
C13_Expired ==
  /\ last.op = "join-room"
  /\ last.roomId \in DOMAIN rooms
  /\ last.args[1] \in DOMAIN rooms[last.roomId].bannedUntil
  /\ rooms[last.roomId].bannedUntil[last.args[1]] = now
  /\ last.socket \in DOMAIN activeSockets
  /\ activeSockets[last.socket].userId = last.args[1]

\* C14: a kick-user naming a room R in the store, sent by a connection that is
\* not the host of R, is answered with a permission error to that connection
\* only and changes no presence, roster or ban; sent by the host of R for a user
\* who is R's host or has no presence in R, it is answered with a failed
\* kick-result to the caller and changes nothing either.
C14_KickRefusals ==
  [][ ( /\ last'.op = "kick-user"
        /\ last'.roomId \in DOMAIN rooms )
      => LET c == last'.socket
             R == last'.roomId
             U == last'.args[1]
             same == /\ rooms' = rooms
                     /\ activeSockets' = activeSockets
                     /\ joinedRooms' = joinedRooms
         IN  /\ ~isHostOf(c, R) =>
                  /\ errorSentTo(emitted', c, {"Only host can kick users"})
                  /\ \A i \in 1..Len(emitted') : emitted'[i].to = {c}
                  /\ same
             /\ ( /\ isHostOf(c, R)
                  /\ \/ U = rooms[R].hostId
                     \/ findTargets(R, U) = {} ) =>
                  /\ kickAnswered(emitted', c, FALSE)
                  /\ \A i \in 1..Len(emitted') : emitted'[i].to = {c}
                  /\ same
    ]_vars

RelayOps == {"webrtc-offer", "webrtc-answer", "webrtc-ice-candidate"}

\* the payload an emitted signalling event carries
payloadOf(call) ==
  CASE call.event = "webrtc-offer" -> call.body.offer
    [] call.event = "webrtc-answer" -> call.body.answer
    [] call.event = "webrtc-ice-candidate" -> call.body.candidate

\* C15: an offer, answer or ICE candidate that names a target user, sent by a
\* connection with a presence entry, is emitted once, as the same event, to one
\* connection whose presence has that user id and that room id, carrying the
\* payload as sent and the sender's user id; when no presence matches, the
\* handler emits nothing at all (no error event either).
C15_TargetedRelay ==
  ( /\ last.op \in RelayOps
    /\ last.socket \in DOMAIN activeSockets
    /\ last.args[1] # "none" )
  => LET matching == {x \in DOMAIN activeSockets :
                        /\ activeSockets[x].userId = last.args[1]
                        /\ activeSockets[x].roomId = last.roomId}
     IN  IF matching = {}
         THEN emitted = <<>>
         ELSE /\ Len(emitted) = 1
              /\ emitted[1].event = last.op
              /\ \E x \in matching : emitted[1].to = {x}
              /\ payloadOf(emitted[1]) = last.args[2]
              /\ emitted[1].body.fromUserId = activeSockets[last.socket].userId

\* a targeted message went to its target while a third connection of the room got nothing
C15_Witness ==
  /\ last.op \in RelayOps
  /\ last.args[1] # "none"
  /\ Len(emitted) = 1
  /\ last.socket \notin emitted[1].to
  /\ \E x \in DOMAIN activeSockets :
       /\ x # last.socket
       /\ x \notin emitted[1].to
       /\ activeSockets[x].roomId = last.roomId
       /\ activeSockets[x].userId # last.args[1]

\* C16: no offer, answer or ICE-candidate message, targeted or broadcast,
\* delivered or dropped, from a connection with or without a presence, changes
\* the room store, the presence registry or the socket.io room membership.
C16_RelayFrame ==
  [][ last'.op \in RelayOps =>
        /\ rooms' = rooms
        /\ activeSockets' = activeSockets
        /\ joinedRooms' = joinedRooms
    ]_vars

\* an answer was relayed between two presences of a room that is in the store
C16_Witness ==
  /\ last.op = "webrtc-answer"
  /\ last.roomId \in DOMAIN rooms
  /\ Len(emitted) = 1
  /\ emitted[1].to # {}
  /\ emitted[1].to # {last.socket}
  /\ Cardinality(DOMAIN activeSockets) > 1

\* C17: every error event goes to the connection whose request the handler was
\* serving, and to no other connection.
C17_ErrorsToCallerOnly ==
  \A i \in 1..Len(emitted) :
    emitted[i].event = "error" =>
      /\ last.socket \in Connections
      /\ emitted[i].to = {last.socket}

\* a request was answered with an error while another connection was in the room it named
C17_Witness ==
  /\ Len(emitted) = 1
  /\ emitted[1].event = "error"
  /\ emitted[1].to = {last.socket}
  /\ \E x \in Connections \ {last.socket} : last.roomId \in joinedRooms[x]

\* C18: every sync-state goes out to the connections joined to the room at the
\* moment the state it carries is produced, so each connection is sent a room's
\* states in the order they were produced: the lastUpdated values a connection
\* is sent never decrease, and what a connection joined to the room was sent
\* last is the room's state in the store.
C18_BroadcastsInOrder ==
  /\ [](\A c \in Connections :
          ("r1" \in joinedRooms[c] /\ "r1" \in DOMAIN rooms) =>
            received[c] = rooms["r1"].playbackState)
  /\ [][ /\ \A i \in 1..Len(emitted') :
              emitted'[i].event = "sync-state" =>
                /\ "r1" \in DOMAIN rooms'
                /\ emitted'[i].body.playbackState = rooms'["r1"].playbackState
                /\ emitted'[i].to = {c \in Connections : "r1" \in joinedRooms'[c]}
          /\ \A c \in Connections :
              (received[c] # NoState /\ received'[c] # NoState) =>
                received'[c].lastUpdated >= received[c].lastUpdated
       ]_vars

\* a guest has been sent, in turn, an older state and then the state a sync produced
C18_Witness ==
  /\ last.op = "sync"
  /\ "r1" \in DOMAIN rooms
  /\ rooms["r1"].playbackState.isPlaying
  /\ rooms["r1"].playbackState.lastUpdated = now
  /\ now > 0
  /\ \E c \in DOMAIN activeSockets :
       /\ ~activeSockets[c].isHost
       /\ "r1" \in joinedRooms[c]
       /\ received[c] = rooms["r1"].playbackState

\* C19: the position of every room in the store is at least 0, whatever positions
\* the host reports in pause and seek.
C19_PositionNonNegative ==
  \A r \in DOMAIN rooms : rooms[r].playbackState.currentTime >= 0

\* C20: when the sync callback and a host play, pause, seek or change-source on
\* the same room are suspended at their awaits at the same time, then from the
\* handler's write on, whatever the callback does, the room keeps the url, the
\* videoType and the isPlaying the handler wrote and shows the position the
\* handler's state shows at the current time; a paused state the handler wrote
\* stays exactly as written (for pause: isPlaying false, the reported position).
C20_NoLostUpdate ==
  ( /\ tasks.overlap
    /\ tasks.wrote # NoState )
  => LET H == tasks.wrote
         pb == rooms[tasks.intent.roomId].playbackState
     IN  /\ pb.isPlaying = H.isPlaying
         /\ pb.url = H.url
         /\ pb.videoType = H.videoType
         /\ calculateExpectedTime(pb, now) = calculateExpectedTime(H, now)
         /\ ~H.isPlaying => pb = H
         /\ tasks.intent.op = "pause" =>
              /\ ~pb.isPlaying
              /\ pb.currentTime = tasks.intent.args[1]

\* the callback has checkpointed a playing room and waits to emit; the pause that
\* started meanwhile has written after it and waits to emit too
C20_Witness ==
  /\ tasks.overlap
  /\ tasks.tick.pc = "set"
  /\ tasks.intent.pc = "set"
  /\ tasks.intent.op = "pause"
  /\ tasks.intent.roomId = tasks.tick.roomId
  /\ tasks.wrote = rooms[tasks.intent.roomId].playbackState

\* the pause wrote first, and the callback that had started before it has finished
C20_TickAfterPause ==
  /\ tasks.overlap
  /\ tasks.tick.pc = "idle"
  /\ tasks.intent.pc = "set"
  /\ tasks.intent.op = "pause"
  /\ last.op = "sync"
  /\ Len(emitted) = 1
  /\ now > tasks.wrote.lastUpdated

----------------------------------------------------------------------------
(* Properties of the playback state machine, read off the observers *)

----------------------------------------------------------------------------
(* Join codes *)

\* C26: at every moment no two rooms of the store have the same join code, so a
\* lookup by join code identifies at most one room.
C26_JoinCodesUnique ==
  \A r1 \in DOMAIN rooms, r2 \in DOMAIN rooms :
    rooms[r1].code = rooms[r2].code => r1 = r2

\* every join code is a 5-digit number
C26_FiveDigits ==
  \A r \in DOMAIN rooms : rooms[r].code >= 10000 /\ rooms[r].code <= 99999

\* a lookup by code has just answered with one of two rooms that carry the code
C26_AmbiguousLookup ==
  /\ last.op = "get-by-code"
  /\ Cardinality(roomsWithCode(last.args[1])) > 1
  /\ emitted[1].body.status = 200

----------------------------------------------------------------------------
(* The two room stores *)

\* C27: the Map store and the Redis store are interchangeable: after every
\* sequence of setRoom, getRoom, findRoomByCode and getRoomsCount calls (two rooms
\* put with one join code and a Room changed after getRoom without setRoom
\* included) both have returned equal results.
C27_BackendsAgree ==
  /\ onTheWire(backends.memResult) = onTheWire(backends.redisResult)
  /\ backends.memCount = backends.redisCount

\* the same, with the Room objects compared as they are (a Date stays a Date)
C27_SameObjects ==
  backends.memResult = backends.redisResult

\* getRoom has just returned a room on both sides
C27_BothReturned ==
  /\ last.op = "store:get"
  /\ backends.memResult # NoRoom
  /\ backends.redisResult # NoRoom

\* findRoomByCode has just returned different rooms: two rooms carry the code
C27_FindDiffers ==
  /\ last.op = "store:find"
  /\ backends.memResult # NoRoom
  /\ backends.redisResult # NoRoom
  /\ backends.memResult.id # backends.redisResult.id

\* getRoom has just returned the same room with different contents: the caller
\* had changed the Room it held and not stored it
C27_GetDiffers ==
  /\ last.op = "store:get"
  /\ backends.memResult.id = backends.redisResult.id
  /\ backends.memResult.name # backends.redisResult.name

----------------------------------------------------------------------------
(* Disconnects of guests *)

\* C28: when a connection whose presence is not a host's disconnects, its presence
\* entry is removed (the other entries stay), one user-left naming its user is
\* sent to the other connections of its room and nothing else is sent, and the
\* store is the same as before: every room, with its playbackState, roster, bans
\* and chat history.
C28_GuestLeaveFrame ==
  [][ (/\ last'.op = "disconnect"
       /\ last'.socket \in DOMAIN activeSockets
       /\ ~activeSockets[last'.socket].isHost)
      => LET c == last'.socket
             socketUser == activeSockets[c]
         IN  /\ DOMAIN activeSockets' = DOMAIN activeSockets \ {c}
             /\ \A x \in DOMAIN activeSockets' : activeSockets'[x] = activeSockets[x]
             /\ Len(emitted') = 1
             /\ emitted'[1].event = "user-left"
             /\ emitted'[1].to = {x \in Connections \ {c} : socketUser.roomId \in joinedRooms[x]}
             /\ emitted'[1].body.userId = socketUser.userId
             /\ rooms' = rooms ]_vars

\* a guest has just left a room that is still in the store, and the others in the
\* room were told
C28_Witness ==
  /\ last.op = "disconnect"
  /\ Len(emitted) = 1
  /\ emitted[1].event = "user-left"
  /\ emitted[1].to # {}
  /\ \E r \in DOMAIN rooms :
       /\ emitted[1].to \subseteq inRoom(r)
       /\ rooms[r].hostId # emitted[1].body.userId
       /\ rooms[r].playbackState.url # ""

----------------------------------------------------------------------------
(* Chat history *)

\* the last n elements of a sequence
lastOf(seq, n) ==
  IF Len(seq) <= n THEN seq ELSE SubSeq(seq, Len(seq) - n + 1, Len(seq))

\* C29: a room's chat history never holds more than 100 messages; a message
\* appended to a full history pushes the oldest out, so after every chat message
\* the history is the last (up to 100) of the old history followed by the new
\* message, in that order.
C29_ChatHistoryCapped ==
  /\ [](\A r \in DOMAIN rooms : Len(rooms[r].chatHistory) <= 100)
  /\ [][ (/\ last'.op = "chat-message"
          /\ last'.socket \in DOMAIN activeSockets
          /\ last'.roomId \in DOMAIN rooms)
         => rooms'[last'.roomId].chatHistory
              = lastOf(rooms[last'.roomId].chatHistory \o <<emitted'[1].body>>, 100) ]_vars

\* a message has just been appended to a full history: the oldest one is gone
C29_Witness ==
  /\ last.op = "chat-message"
  /\ last.roomId \in DOMAIN rooms
  /\ Len(rooms[last.roomId].chatHistory) = 100
  /\ rooms[last.roomId].chatHistory[100] = emitted[1].body
  /\ rooms[last.roomId].chatHistory[1].id = "3"

\* the stored text has its angle brackets escaped
C29_Escaped ==
  \A r \in DOMAIN rooms : \A i \in 1..Len(rooms[r].chatHistory) :
    rooms[r].chatHistory[i].message
      = <<"&", "l", "t", ";", "b", "&", "g", "t", ";">>

----------------------------------------------------------------------------
(* The periodic sync, room by room *)

\* the rooms of the store that a presence entry names
liveRooms ==
  {r \in DOMAIN rooms : \E c \in DOMAIN activeSockets : activeSockets[c].roomId = r}

\* C30: every periodic sync emits one sync-state, with the stored state and the
\* server's time, to each room that is in the store and has a presence, paused
\* rooms included; it leaves the playbackState of a paused room (lastUpdated
\* included) as it is, and a room without a presence is neither written nor sent
\* anything.
C30_TickPerLiveRoom ==
  [][ last'.op = "sync"
      => /\ Len(emitted') = Cardinality(liveRooms)
         /\ \A i \in 1..Len(emitted') : emitted'[i].event = "sync-state"
         /\ \A r \in liveRooms :
              /\ \E i \in 1..Len(emitted') :
                   /\ emitted'[i].to = inRoom(r)
                   /\ emitted'[i].body.playbackState = rooms'[r].playbackState
                   /\ emitted'[i].body.serverTime = now
              /\ ~rooms[r].playbackState.isPlaying
                   => rooms'[r].playbackState = rooms[r].playbackState
         /\ \A r \in DOMAIN rooms \ liveRooms : rooms'[r] = rooms[r]
         /\ DOMAIN rooms' = DOMAIN rooms ]_vars

\* a sync has just run with a paused room that has a presence (it was sent its
\* unchanged state) and a playing room that has none (its state is older than now)
C30_Witness ==
  /\ last.op = "sync"
  /\ \E r \in liveRooms :
       /\ ~rooms[r].playbackState.isPlaying
       /\ rooms[r].playbackState.lastUpdated < now
       /\ \E i \in 1..Len(emitted) : emitted[i].body.playbackState = rooms[r].playbackState
  /\ \E r \in DOMAIN rooms \ liveRooms :
       /\ rooms[r].playbackState.isPlaying
       /\ rooms[r].playbackState.lastUpdated < now
  /\ Len(emitted) = 1

----------------------------------------------------------------------------
(* What a control handler broadcasts when other callers run between its pieces *)

\* the step is the emit of the control handler tasks.intent
intentEmits ==
  tasks.intent.pc = "set" /\ tasks'.intent.pc = "idle"

\* C31: every sync-state a play, pause, seek or change-source handler emits
\* carries the state that handler produced: the payload's playbackState is the
\* one the handler wrote and its lastUpdated is the payload's serverTime, whatever
\* ran between the handler's write and its emit.
C31_EmitsOwnState ==
  [][ intentEmits
      => /\ emitted'[1].event = "sync-state"
         /\ emitted'[1].body.playbackState = tasks.wrote
         /\ emitted'[1].body.playbackState.lastUpdated = emitted'[1].body.serverTime ]_vars

\* C31: a handler has just broadcast, with its own serverTime, a state another
\* handler wrote at the same instant (no time passed, the sync callback idle)
C31_EmitsOthersState ==
  /\ last.op \in ControlOps
  /\ tasks.intent.pc = "idle"
  /\ tasks.second.pc = "set"
  /\ tasks.tick.pc = "idle"
  /\ Len(emitted) = 1
  /\ emitted[1].event = "sync-state"
  /\ emitted[1].body.playbackState # tasks.wrote
  /\ emitted[1].body.serverTime = tasks.second.serverTime
  /\ emitted[1].body.playbackState.lastUpdated = emitted[1].body.serverTime

\* C31: a handler that ran alone (nothing else suspended from its start to its
\* emit) broadcasts its own state
C31_AloneEmitsOwnState ==
  [][ ( /\ intentEmits
        /\ ~tasks.overlap
        /\ tasks.tick.pc = "idle"
        /\ tasks.second.pc = "idle"
        /\ rooms["r1"].playbackState = tasks.wrote )
      => /\ emitted'[1].body.playbackState = tasks.wrote
         /\ emitted'[1].body.playbackState.lastUpdated = emitted'[1].body.serverTime ]_vars

----------------------------------------------------------------------------
(* The browser's drift check in the long run *)

\* the time the drift check needs at most: the cooldown and one more interval
DriftGrace ==
  HARD_SEEK_COOLDOWN + POLL_INTERVAL

\* the room plays and so does the video, the player is not buffering and has
\* data, and the position is more than 1.5 s from the expected one
largeDrift ==
  /\ client.mounted
  /\ client.closure.isPlaying
  /\ ~client.paused
  /\ ~client.isBuffering
  /\ client.readyState >= 3
  /\ magnitude(expectedTime(client.closure) - client.currentTime) > 1500

\* the browser has just set the position to the expected one
hardSeekDone ==
  /\ last.op \in {"client:poll", "client:effect"}
  /\ client.lastHardSeekAt = localNow
  /\ client.currentTime = expectedTime(client.closure)

\* C32: with the drift check firing on time, a playing browser that is not
\* buffering, has data and is more than 1.5 s off does not stay so: it hard-seeks
\* to the expected position (or leaves the condition).  The last DriftGrace ms of
\* the checked time span are left out, where the next poll would fall beyond it.
C32_LargeDriftCorrected ==
  (largeDrift /\ now + DriftGrace <= DriftMaxNow) ~> (hardSeekDone \/ ~largeDrift)

\* C32: the drift check has just hard-sought a video that had stalled for a while
\* and was playing again
C32_Witness ==
  /\ last.op = "client:poll"
  /\ hardSeekDone
  /\ client.closure.isPlaying
  /\ ~client.paused
  /\ client.lastHardSeekAt > client.skew + 2000

\* C32: the drift check found the large drift within 2 s of the previous hard
\* seek and left the position alone
C32_WitnessCooldown ==
  /\ last.op = "client:poll"
  /\ largeDrift
  /\ localNow - client.lastHardSeekAt <= 2000

----------------------------------------------------------------------------
(* The periodic sync and the expected position *)

\* C33: a sync does not change the position the clients should show: for every
\* room, playing or paused, and every time t from the sync on, the expected
\* position at t computed from the state after the sync is the one computed
\* from the state before it.
C33_SyncKeepsExpected ==
  [][ last'.op = "sync" =>
        \A r \in DOMAIN rooms : \A d \in LaterTimes :
          calculateExpectedTime(rooms'[r].playbackState, now' + d)
            = calculateExpectedTime(rooms[r].playbackState, now' + d) ]_vars

\* C33: a sync has just moved the checkpoint of a playing room that the host had
\* started at a position other than 0
C33_Witness ==
  /\ last.op = "sync"
  /\ "r1" \in DOMAIN rooms
  /\ rooms["r1"].playbackState.isPlaying
  /\ rooms["r1"].playbackState.lastUpdated = now
  /\ sinceHost["r1"].syncs >= 1
  /\ sinceHost["r1"].currentTime > 0
  /\ sinceHost["r1"].at < now
  /\ rooms["r1"].playbackState.currentTime
       = sinceHost["r1"].currentTime + (now - sinceHost["r1"].at)

----------------------------------------------------------------------------
(* lastUpdated over time *)

\* C34: for every room, lastUpdated is never later than the server's clock, and
\* no step (a piece of a control handler or of the sync callback, or time
\* passing) makes it smaller.
C34_LastUpdatedMonotone ==
  /\ [](\A r \in DOMAIN rooms : rooms[r].playbackState.lastUpdated <= now)
  /\ [][ \A r \in (DOMAIN rooms) \cap (DOMAIN rooms') :
            rooms'[r].playbackState.lastUpdated >= rooms[r].playbackState.lastUpdated ]_vars

\* C34: the sync callback has just moved lastUpdated of a room on, between the
\* write and the emit of a control handler that had stamped it earlier
C34_Witness ==
  /\ last.op = "sync"
  /\ tasks.intent.pc = "set"
  /\ tasks.intent.serverTime < now
  /\ tasks.wrote.lastUpdated = tasks.intent.serverTime
  /\ rooms["r1"].playbackState.lastUpdated = now

----------------------------------------------------------------------------
(* The host's connections and the life of the room *)

\* C35: while a presence entry with the host flag names room R, R is in the store.
C35_HostPresenceHasRoom ==
  \A c \in DOMAIN activeSockets :
    activeSockets[c].isHost => activeSockets[c].roomId \in DOMAIN rooms

\* C35: the disconnect of one of the host's two connections has just closed the
\* room; the other connection still holds the host's presence for it
C35_ClosedUnderHost ==
  /\ last.op = "disconnect"
  /\ Len(emitted) = 2
  /\ emitted[2].event = "room-closed"
  /\ \E c \in DOMAIN activeSockets :
        /\ activeSockets[c].isHost
        /\ activeSockets[c].roomId \notin DOMAIN rooms
        /\ c \in emitted[2].to

----------------------------------------------------------------------------
(* Kicks of users who hold several connections *)

\* the step is a kick that the host was answered `ok: true`
kickSucceeds ==
  /\ last'.op = "kick-user"
  /\ Len(emitted') = 3
  /\ emitted'[3].event = "kick-result"
  /\ emitted'[3].body.ok

\* C36: after a successful kick of user U from room R no presence entry for
\* (R, U) is left, and no connection that held one is in the socket.io room of R
\* any more (so that none receives a further broadcast of R).
C36_KickRemovesUser ==
  [][ kickSucceeds =>
        LET R == last'.roomId
            U == last'.args[1]
        IN  /\ \A x \in DOMAIN activeSockets' :
                  ~(activeSockets'[x].userId = U /\ activeSockets'[x].roomId = R)
            /\ \A x \in DOMAIN activeSockets :
                  (activeSockets[x].userId = U /\ activeSockets[x].roomId = R)
                    => R \notin joinedRooms'[x] ]_vars

\* C36: a kicked (and banned) user's other connection has just been sent the
\* periodic sync-state of the room
C36_KickedStillReceives ==
  /\ last.op = "sync"
  /\ "r1" \in DOMAIN rooms
  /\ \E c \in DOMAIN activeSockets :
        /\ activeSockets[c].roomId = "r1"
        /\ activeSockets[c].userId \in DOMAIN rooms["r1"].bannedUntil
        /\ \E k \in 1..Len(emitted) :
              emitted[k].event = "sync-state" /\ c \in emitted[k].to

\* C36: a user with one connection in the room is removed whole by the kick
C36_SingleConnection ==
  [][ ( /\ kickSucceeds
        /\ Cardinality({x \in DOMAIN activeSockets :
                          /\ activeSockets[x].userId = last'.args[1]
                          /\ activeSockets[x].roomId = last'.roomId}) = 1 )
      => LET R == last'.roomId
             U == last'.args[1]
         IN  /\ \A x \in DOMAIN activeSockets' :
                   ~(activeSockets'[x].userId = U /\ activeSockets'[x].roomId = R)
             /\ \A x \in DOMAIN activeSockets :
                   (activeSockets[x].userId = U /\ activeSockets[x].roomId = R)
                     => R \notin joinedRooms'[x] ]_vars

----------------------------------------------------------------------------
(* The socket.io rooms of a connection and its presence entry *)

\* C37: a connection is in the socket.io room of R, and so among the recipients
\* of the broadcasts of R, only while its presence entry names R.
C37_OnlyCurrentRoom ==
  \A c \in Connections : \A r \in joinedRooms[c] :
    c \in DOMAIN activeSockets /\ activeSockets[c].roomId = r

\* C37: the host of r1 has just pressed play, and the sync-state of r1 went to a
\* connection whose presence entry names another room
C37_ReceivesOldRoom ==
  /\ last.op = "play"
  /\ last.roomId = "r1"
  /\ Len(emitted) = 1
  /\ emitted[1].event = "sync-state"
  /\ \E c \in emitted[1].to :
        /\ c \in DOMAIN activeSockets
        /\ activeSockets[c].roomId # "r1"
        /\ activeSockets[last.socket].roomId = "r1"

----------------------------------------------------------------------------
(* The roster *)

C38_HostKickRefused ==
  /\ last.op = "kick-user"
  /\ last.roomId \in DOMAIN rooms
  /\ last.args[1] = rooms[last.roomId].hostId
  /\ Len(emitted) = 1
  /\ emitted[1].event = "kick-result"
  /\ ~emitted[1].body.ok
  /\ emitted[1].body.message = "Cannot kick the host"

----------------------------------------------------------------------------
(* Presence against the roster and the capacity *)

\* the users with a presence entry for room r
presentUsers(r) ==
  {activeSockets[c].userId : c \in {x \in DOMAIN activeSockets : activeSockets[x].roomId = r}}

\* C39: in every room the users with a live presence entry are at most
\* maxParticipants, and each of them is in the roster.
C39_PresenceWithinRoster ==
  \A r \in DOMAIN rooms :
    /\ Cardinality(presentUsers(r)) <= rooms[r].maxParticipants
    /\ \A u \in presentUsers(r) :
          \E i \in 1..Len(rooms[r].participants) : rooms[r].participants[i] = u

\* C39: three users are present in a room of two seats whose roster is full
C39_OverCapacity ==
  /\ last.op = "join-room"
  /\ "r1" \in DOMAIN rooms
  /\ Len(rooms["r1"].participants) = rooms["r1"].maxParticipants
  /\ Cardinality(presentUsers("r1")) > rooms["r1"].maxParticipants

\* C39: a presence entry is held by a user the roster does not name
C39_OutsideRoster ==
  /\ last.op = "join-room"
  /\ "r1" \in DOMAIN rooms
  /\ \E u \in presentUsers("r1") :
        \A i \in 1..Len(rooms["r1"].participants) : rooms["r1"].participants[i] # u

----------------------------------------------------------------------------
(* Closed rooms *)

\* room r was created and is not in the store: the host's disconnect closed it
\* (nothing else removes a room)
closed(r) ==
  r \in issuedIds /\ r \notin DOMAIN rooms

\* C40: a room that the host's disconnect closed is not in the store after any
\* later step, and no later step broadcasts a sync-state for it (the
\* specification has the one room r1: every sync-state is a sync-state of r1).
C40_ClosedStaysClosed ==
  [][ closed("r1")
      => /\ "r1" \notin DOMAIN rooms'
         /\ \A k \in 1..Len(emitted') : emitted'[k].event # "sync-state" ]_vars

\* C40: a control handler that got the room before the host's connection closed
\* has put it back into the store after the close
C40_WrittenBack ==
  /\ last.op \in ControlOps
  /\ tasks.intent.pc = "set"
  /\ tasks.intent.socket \notin DOMAIN activeSockets
  /\ "r1" \in DOMAIN rooms
  /\ rooms["r1"].playbackState = tasks.wrote
  /\ \A c \in DOMAIN activeSockets : ~activeSockets[c].isHost

\* C40: the sync callback has sent the guest a sync-state of the room after the
\* room was closed
C40_SyncAfterClose ==
  /\ last.op = "sync"
  /\ closed("r1")
  /\ "s1" \notin DOMAIN activeSockets
  /\ Len(emitted) = 1
  /\ emitted[1].event = "sync-state"
  /\ "s2" \in emitted[1].to

\* C40: with no caller suspended at the close, the room stays closed
C40_QuietClose ==
  [][ ( /\ closed("r1")
        /\ tasks.intent.pc = "idle"
        /\ tasks.tick.pc = "idle" )
      => /\ "r1" \notin DOMAIN rooms'
         /\ \A k \in 1..Len(emitted') : emitted'[k].event # "sync-state" ]_vars

----------------------------------------------------------------------------
(* The browser's estimate of the expected position *)

\* Scenario A reached: the play written at server time 1000 with position 10 s was
\* received 200 ms later, and the server's clock now shows 4000
ScenarioA ==
  /\ client.playbackState = hostBroadcast(TRUE, 10000, 1000).playbackState
  /\ client.serverTimeOffset = updateServerTimeOffset(1200 + client.skew, 1000)
  /\ now = 4000

\* C21: the browser computes position + (estimatedServerNow - lastUpdated) for a
\* playing state, with estimatedServerNow = localNow - (local time at receipt -
\* serverTime of the last message); in Scenario A (play at server time 1000 with
\* position 10 s, received 200 ms later) the value at the local time that
\* corresponds to server time 4000 is 13.0 s.
C21_ScenarioAValue ==
  ScenarioA => expectedTime(client.playbackState) = 13000

\* what the browser computes in Scenario A: 12.8 s, short by the one-way delay
C21_ScenarioAComputed ==
  ScenarioA => /\ getServerTime = 3800
               /\ expectedTime(client.playbackState) = 12800

\* with no network delay the estimate is exact, whatever the browser's clock shows
C21_ExactWithoutDelay ==
  (/\ client.playbackState # NoState
   /\ client.serverTimeOffset = client.skew)
    => expectedTime(client.playbackState)
         = calculateExpectedTime(client.playbackState, now)


----------------------------------------------------------------------------
(* The browser's drift correction *)

\* the step is a run of the playback-state effect (a broadcast was received) or of
\* the drift check (the local poll)
comparing ==
  last'.op \in {"client:effect", "client:poll"}

\* the state the step compares the video's position with, and the drift it finds
comparedState ==
  IF last'.op = "client:effect" THEN client.playbackState ELSE client.closure

stepDrift ==
  expectedTime(comparedState) - client.currentTime

\* the step compares for a state that plays (the poll also wants the video playing)
comparesPlaying ==
  /\ comparing
  /\ comparedState.isPlaying
  /\ last'.op = "client:poll" => ~client.paused

\* the step moved the video's position: a hard seek
hardSeeks ==
  /\ comparing
  /\ client'.currentTime # client.currentTime

\* C22: whenever the browser compares its position with the expected one (on a
\* received broadcast or on the poll) and the drift is above 0.3 s and at most
\* 1.5 s, it sets the rate to 1.08 when behind and to 0.92 when ahead and does
\* not hard-seek.  (Read for a player that is not buffering: see C24.)
C22_ModerateDriftNudges ==
  [][ (/\ comparesPlaying
       /\ ~client.isBuffering
       /\ magnitude(stepDrift) > 300
       /\ magnitude(stepDrift) <= 1500)
      => /\ client'.playbackRate = IF stepDrift > 0 THEN 1080 ELSE 920
         /\ ~hardSeeks ]_vars

\* the same for the poll alone
C22_OnPoll ==
  [][ (/\ comparesPlaying
       /\ last'.op = "client:poll"
       /\ ~client.isBuffering
       /\ magnitude(stepDrift) > 300
       /\ magnitude(stepDrift) <= 1500)
      => /\ client'.playbackRate = IF stepDrift > 0 THEN 1080 ELSE 920
         /\ ~hardSeeks ]_vars

\* C23: the browser hard-seeks only when the drift exceeds 1.5 s, the player has
\* enough data and at least 2 s have passed since its previous hard seek; each
\* hard seek sets the position to the expected one and the rate to 1.0.
C23_HardSeekGuarded ==
  [][ hardSeeks
      => /\ magnitude(stepDrift) > 1500
         /\ client.readyState >= 3
         /\ localNow - client.lastHardSeekAt >= 2000
         /\ client'.currentTime = expectedTime(comparedState)
         /\ client'.playbackRate = 1000 ]_vars

\* the same for the poll alone
C23_OnPoll ==
  [][ (hardSeeks /\ last'.op = "client:poll")
      => /\ magnitude(stepDrift) > 1500
         /\ client.readyState >= 3
         /\ localNow - client.lastHardSeekAt >= 2000
         /\ client'.currentTime = expectedTime(comparedState)
         /\ client'.playbackRate = 1000 ]_vars

C24_WitnessBroadcast ==
  /\ last.op = "client:effect"
  /\ client.isBuffering
  /\ client.readyState >= 3
  /\ magnitude(expectedTime(client.closure) - client.currentTime) > 1000

\* C25: a broadcast whose lastUpdated is older than or equal to that of the state
\* the browser holds is ignored: the state held, the one the browser corrects
\* toward, stays, and no correction is started for it.
C25_StaleBroadcastIgnored ==
  [][ (/\ last'.op = "client:sync-state"
       /\ client.playbackState # NoState
       /\ last'.args[1].playbackState.lastUpdated <= client.playbackState.lastUpdated)
      => /\ client'.playbackState = client.playbackState
         /\ client'.pending = client.pending ]_vars

\* the browser holds a state older than one it received before
C25_HoldsOlderState ==
  /\ last.op = "client:sync-state"
  /\ client.playbackState.lastUpdated < client.closure.lastUpdated


\* the last handler was control intent `op`, sent by the host of the room it names
hostIntent(op) ==
  /\ last.op = op
  /\ isHostOf(last.socket, last.roomId)

\* the playbackState of the room the last handler names
current ==
  rooms[last.roomId].playbackState

abs(x) ==
  IF x < 0 THEN -x ELSE x

\* C3: whatever play, pause and seek intents the host has issued and whatever syncs
\* have run, the position a client computes from the room's latest state differs
\* from the position of an ideal independent clock by at most one sync interval.
C3_ExpectedTracksIdealClock ==
  \A r \in DOMAIN rooms :
    (\E c \in DOMAIN activeSockets : isHostOf(c, r)) =>
      abs(calculateExpectedTime(rooms[r].playbackState, now) - ideal[r].currentTime)
        <= SYNC_INTERVAL

\* C4: a sync adds now - lastUpdated to the position of every playing room with a
\* live presence and sets lastUpdated to now; so k syncs 3000 ms apart after the
\* host left the room playing at position 0 give position 3000 * k, lastUpdated
\* having advanced at each of them.
C4_SyncAddsElapsed ==
  [][ last'.op = "sync" =>
        \A r \in DOMAIN rooms :
          ( /\ \E c \in DOMAIN activeSockets : activeSockets[c].roomId = r
            /\ rooms[r].playbackState.isPlaying ) =>
            LET old == rooms[r].playbackState
                new == rooms'[r].playbackState
                run == sinceHost'[r]
            IN  /\ new.currentTime = old.currentTime + (now' - old.lastUpdated)
                /\ new.lastUpdated = now'
                /\ new.isPlaying
                /\ ( /\ run.currentTime = 0
                     /\ new.lastUpdated = run.at + SYNC_INTERVAL * run.syncs )
                   => ( /\ new.currentTime = SYNC_INTERVAL * run.syncs
                        /\ new.lastUpdated > old.lastUpdated )
    ]_vars

\* three syncs, 3000 ms apart, after a play at position 0: position 9.0 s
C4_Witness ==
  /\ last.op = "sync"
  /\ "r1" \in DOMAIN rooms
  /\ rooms["r1"].playbackState.isPlaying
  /\ sinceHost["r1"].intent[1] = "play"
  /\ sinceHost["r1"].currentTime = 0
  /\ sinceHost["r1"].syncs = 3
  /\ rooms["r1"].playbackState.lastUpdated = sinceHost["r1"].at + 3 * SYNC_INTERVAL
  /\ rooms["r1"].playbackState.currentTime = 9000

\* C5: a host play on an existing room sets isPlaying and lastUpdated = now and
\* leaves currentTime, url and videoType as they were, paused or playing before.
C5_PlayFrame ==
  hostIntent("play") =>
    /\ current.isPlaying = TRUE
    /\ current.lastUpdated = now
    /\ current.currentTime = before.playbackState.currentTime
    /\ current.url = before.playbackState.url
    /\ current.videoType = before.playbackState.videoType

\* play on a room that had been playing for a while, past position 0
C5_Witness ==
  /\ hostIntent("play")
  /\ before.playbackState.isPlaying
  /\ before.playbackState.lastUpdated < now
  /\ before.playbackState.currentTime > 0
  /\ before.playbackState.url # ""

\* C6: a host pause with reported position p yields isPlaying = false,
\* currentTime = p, lastUpdated = now whatever the state before; a seek to 50.0
\* while playing followed within 100 ms by pause(50.2) ends paused at 50.2.
C6_PauseResult ==
  hostIntent("pause") =>
    /\ current.isPlaying = FALSE
    /\ current.currentTime = last.args[1]
    /\ current.lastUpdated = now
    /\ current.url = before.playbackState.url
    /\ current.videoType = before.playbackState.videoType

\* pause(50.2) 100 ms after a seek to 50.0 on a playing room
C6_Witness ==
  /\ hostIntent("pause")
  /\ last.args = <<50200>>
  /\ before.intent = <<"seek", <<50000>>>>
  /\ before.playbackState.isPlaying
  /\ before.playbackState.currentTime = 50000
  /\ now - before.playbackState.lastUpdated = 100
  /\ current.isPlaying = FALSE
  /\ current.currentTime = 50200

\* C7: a host seek to p sets currentTime = p and lastUpdated = now and leaves
\* isPlaying, url and videoType as they were.
C7_SeekFrame ==
  hostIntent("seek") =>
    /\ current.currentTime = last.args[1]
    /\ current.lastUpdated = now
    /\ current.isPlaying = before.playbackState.isPlaying
    /\ current.url = before.playbackState.url
    /\ current.videoType = before.playbackState.videoType

\* seek on a playing room with media loaded, to another position, some time later
C7_Witness ==
  /\ hostIntent("seek")
  /\ before.playbackState.isPlaying
  /\ before.playbackState.url # ""
  /\ before.playbackState.currentTime # last.args[1]
  /\ before.playbackState.lastUpdated < now

\* C8: a host change-source (url, videoType) replaces the playbackState by
\* position 0, paused, lastUpdated = now, the new url and the new videoType.
C8_ChangeSourceResult ==
  hostIntent("change-source") =>
    current = [url |-> last.args[1], currentTime |-> 0, isPlaying |-> FALSE,
               lastUpdated |-> now, videoType |-> last.args[2]]

\* change-source on a room that was playing another source, past position 0
C8_Witness ==
  /\ hostIntent("change-source")
  /\ before.playbackState.isPlaying
  /\ before.playbackState.currentTime > 0
  /\ before.playbackState.url \notin {"", last.args[1]}
  /\ before.playbackState.lastUpdated < now

\* C9: a host pause(p) that directly follows a host pause(p) on the same room
\* leaves the playbackState as the first one left it, lastUpdated apart.
C9_PauseIdempotent ==
  (hostIntent("pause") /\ before.intent = <<"pause", last.args>>) =>
    /\ current.currentTime = last.args[1]
    /\ current.isPlaying = FALSE
    /\ [current EXCEPT !.lastUpdated = 0]
         = [before.playbackState EXCEPT !.lastUpdated = 0]

\* the second of two equal pauses, later than the first
C9_Witness ==
  /\ hostIntent("pause")
  /\ before.intent = <<"pause", last.args>>
  /\ last.args[1] > 0
  /\ before.playbackState.lastUpdated < now
  /\ current.lastUpdated = now

====
